---- MODULE Spec2Model ----
(***************************************************************************)
(* Model of the point/state management core of multimetro-inteligente:     *)
(*   StateManager (src/src/controllers/state_manager.py)                   *)
(*   PointManager (src/src/controllers/point_manager.py)                   *)
(*   Point        (src/src/models/point.py)                                *)
(*   MainWindow   (src/src/views/main_window.py), the glue between them    *)
(***************************************************************************)
EXTENDS Integers, Sequences, FiniteSets, TLC

(***************************************************************************)
(* Bounds of the model                                                     *)
(***************************************************************************)
MaxTransitions == 3      \* executed transitions of a StateManager run
MaxValidators == 1       \* validators registered on top of the defaults
MaxCallbacks == 2        \* callbacks registered in a StateManager run
MaxAppTransitions == 5   \* executed transitions of a MainWindow run
MaxAdds == 2             \* largest ID handed out by add_point
MaxAddsCRUD == 3         \* the same, in the runs of add/remove/clear alone
MaxLoad == 2             \* longest point list given to from_dict
MaxAddsMeas == 2         \* largest ID handed out in the measurement runs
MaxPending == 1          \* simulated results scheduled and not yet delivered
MaxWalk == 52            \* executed transitions of a run that fills the history
MaxAddsLookup == 1       \* largest ID handed out in the runs that ask for unknown points
MaxAddsStats == 1        \* largest ID handed out in the runs that ask for statistics

NULL == "null"            \* None where the other values are strings
None == <<>>              \* None of an Optional[...] attribute or return value
Some(v) == <<v>>          \* a value of an Optional[...] attribute or return value

(***************************************************************************)
(* AppState                                                                *)
(***************************************************************************)
INICIAL == "inicial"
EDICAO == "edicao"
MARCACAO == "marcacao"
MEDICAO == "medicao"
COMPARACAO == "comparacao"

AppState == {INICIAL, EDICAO, MARCACAO, MEDICAO, COMPARACAO}

max_history_size == 50

\* Behaviours of the callables handed to the registries.
Validators == {"accept", "reject"}
Callbacks == {"cb1", "cb_raises"}
\* Those of them that raise an exception when they are called.
RaisingCallbacks == {"cb_raises"}
\* The validators that raise an exception instead of returning their verdict.
RaisingValidators == {"raises"}
\* The transitions a validator is registered for in the runs explored: the
\* nine of the table and one that the table does not list.
ValidatorPairs ==
    {<<INICIAL, EDICAO>>, <<EDICAO, MARCACAO>>, <<MARCACAO, MEDICAO>>,
     <<MEDICAO, COMPARACAO>>, <<EDICAO, INICIAL>>, <<MARCACAO, EDICAO>>,
     <<MEDICAO, MARCACAO>>, <<COMPARACAO, MEDICAO>>, <<COMPARACAO, EDICAO>>,
     <<INICIAL, MEDICAO>>}
\* The states observers are attached to in the runs explored.
CallbackStates == {EDICAO, MARCACAO}

VARIABLES
    current_state,          \* StateManager.current_state
    previous_state,         \* StateManager.previous_state (NULL = None)
    state_history,          \* StateManager.state_history, entries <<from, to>>
    executed,               \* every transition executed since construction
    transition_validators,  \* StateManager.transition_validators
    state_enter_callbacks,  \* StateManager.state_enter_callbacks
    state_exit_callbacks,   \* StateManager.state_exit_callbacks
    sm_call,                \* the last public call and the state it found
    sm_ret,                 \* its return value
    sm_signals              \* signals emitted and callbacks run by it, in order

smVars == <<current_state, previous_state, state_history, executed, transition_validators,
            state_enter_callbacks, state_exit_callbacks, sm_call, sm_ret, sm_signals>>


VARIABLES
    heap,                       \* the Point objects, by object identity
    points,                     \* PointManager.points: list of objects
    points_by_id,               \* PointManager.points_by_id: key -> object
    next_id,                    \* PointManager.next_id
    max_points,                 \* PointManager.max_points
    edit_mode,                  \* PointManager.edit_mode
    measurement_in_progress,    \* PointManager.measurement_in_progress
    current_measurement_point,  \* PointManager.current_measurement_point
    timer_active,               \* PointManager.measurement_timer.isActive()
    pending_results,            \* simulated results scheduled by QTimer.singleShot
    stats_cache,                \* PointManager.stats_cache
    stats_cache_dirty,          \* PointManager.stats_cache_dirty
    issued_ids,                 \* IDs returned by add_point since the last clear_points
    pm_call,                    \* the last public call and the state it found
    pm_ret,                     \* its return value
    pm_signals,                 \* signals emitted by it, in order
    pm_observed                 \* what the slots of each of them find of the measurement

pmVars == <<heap, points, points_by_id, next_id, max_points, edit_mode,
            measurement_in_progress, current_measurement_point, timer_active,
            pending_results,
            stats_cache, stats_cache_dirty, issued_ids, pm_call, pm_ret, pm_signals,
            pm_observed>>

VARIABLES
    edit_mode_btn,          \* MainWindow.edit_mode_btn.isChecked()
    has_unsaved_changes,    \* MainWindow.has_unsaved_changes
    current_shape,          \* MainWindow.current_shape
    files                   \* the files ProjectPersistence writes and reads, by path

appVars == <<edit_mode_btn, has_unsaved_changes, current_shape, files>>

vars == <<smVars, pmVars, appVars>>

(***************************************************************************)
(* StateManager                                                            *)
(***************************************************************************)
DefaultValidators ==
    [k \in {<<INICIAL, EDICAO>>, <<EDICAO, MARCACAO>>,
            <<MARCACAO, MEDICAO>>, <<MEDICAO, COMPARACAO>>} |-> "accept"]

\* The allow-list without the "restart analysis" shortcut.
allowed_backward_NoRestart ==
    {<<EDICAO, INICIAL>>, <<MARCACAO, EDICAO>>, <<MEDICAO, MARCACAO>>,
     <<COMPARACAO, MEDICAO>>}

allowed_backward ==
    {<<EDICAO, INICIAL>>, <<MARCACAO, EDICAO>>, <<MEDICAO, MARCACAO>>,
     <<COMPARACAO, MEDICAO>>, <<COMPARACAO, EDICAO>>}

\* The part of the object that a transition reads and writes.
Self == [current_state |-> current_state, previous_state |-> previous_state,
         state_history |-> state_history, executed |-> executed, signals |-> <<>>]

Emit(self, sig) == [self EXCEPT !.signals = Append(@, sig)]

\* _can_transition_to without the final refusal: what no list names is allowed.
CanTransitionTo_Permissive(self, target_state) ==
    LET validator_key == <<self.current_state, target_state>> IN
    IF validator_key \in DOMAIN transition_validators
    THEN [self |-> Emit(self, <<"validator_called", validator_key>>),
          ok |-> transition_validators[validator_key] = "accept",
          raised |-> transition_validators[validator_key] \in RaisingValidators]
    ELSE [self |-> self, ok |-> TRUE, raised |-> FALSE]

\* _can_transition_to: a registered validator decides first (its call is
\* logged), then the backward allow-list, then the default refusal.  The
\* validator is called outside any try/except: when it raises, so does
\* _can_transition_to.
CanTransitionTo(self, target_state) ==
    LET validator_key == <<self.current_state, target_state>> IN
    IF validator_key \in DOMAIN transition_validators
    THEN [self |-> Emit(self, <<"validator_called", validator_key>>),
          ok |-> transition_validators[validator_key] = "accept",
          raised |-> transition_validators[validator_key] \in RaisingValidators]
    ELSE [self |-> self, ok |-> validator_key \in allowed_backward, raised |-> FALSE]

\* An exception that leaves a public operation: the call has no return
\* value, and the log of the call ends with the exception.
Escapes(self) == [self |-> Emit(self, <<"exception_escaped">>), ret |-> None]

\* The history limit that keeps the first max_history_size entries.
Tail50_KeepOldest(h) ==
    IF Len(h) > max_history_size
    THEN SubSeq(h, 1, max_history_size)
    ELSE h

\* self.state_history = self.state_history[-self.max_history_size:]
Tail50(h) ==
    IF Len(h) > max_history_size
    THEN SubSeq(h, Len(h) - max_history_size + 1, Len(h))
    ELSE h

\* The loop of _call_exit_callbacks / _call_enter_callbacks without the
\* try/except around each call: the first exception leaves the loop.
RunCallbacks_Uncaught(self, kind, state, callbacks) ==
    LET raisers == {i \in 1..Len(callbacks) : callbacks[i] \in RaisingCallbacks}
        last == IF raisers = {} THEN Len(callbacks)
                ELSE CHOOSE i \in raisers : \A j \in raisers : i <= j
    IN [self |-> [self EXCEPT !.signals = @ \o
                    [i \in 1..last |->
                        <<kind, state, callbacks[i], self.current_state,
                          Len(self.state_history),
                          IF callbacks[i] \in RaisingCallbacks THEN "raised" ELSE "returned">>]],
        raised |-> raisers # {}]

\* The loop of _call_exit_callbacks / _call_enter_callbacks: every callback
\* of the list is called in registration order inside its own try/except.
\* What it observes of current_state and of the length of the history is
\* logged, with the outcome of the call: an exception is caught and
\* reported, and the loop goes on.
RunCallbacks(self, kind, state, callbacks) ==
    [self |-> [self EXCEPT !.signals = @ \o
                 [i \in 1..Len(callbacks) |->
                     <<kind, state, callbacks[i], self.current_state,
                       Len(self.state_history),
                       IF callbacks[i] \in RaisingCallbacks THEN "caught" ELSE "returned">>]],
     raised |-> FALSE]

CallExitCallbacks(self, state) ==
    RunCallbacks(self, "exit_callback", state, state_exit_callbacks[state])

CallEnterCallbacks(self, state) ==
    RunCallbacks(self, "enter_callback", state, state_enter_callbacks[state])

\* _execute_transition with the enter callbacks run before the state is updated.
ExecuteTransition_EnterFirst(self, new_state) ==
    LET old_state == self.current_state
        s1 == CallExitCallbacks(self, old_state)
        s2 == CallEnterCallbacks(s1.self, new_state)
        s3 == [s2.self EXCEPT !.previous_state = old_state,
                              !.current_state = new_state,
                              !.state_history = Tail50(Append(@, <<old_state, new_state>>)),
                              !.executed = Append(@, <<old_state, new_state>>)]
        s4 == Emit(s3, <<"state_changed", new_state>>)
    IN [self |-> s4, ret |-> Some(TRUE)]

\* _execute_transition that does not record the transition in the history.
ExecuteTransition_NoHistory(self, new_state) ==
    LET old_state == self.current_state
        s1 == CallExitCallbacks(self, old_state)
        s2 == [s1.self EXCEPT !.previous_state = old_state,
                              !.current_state = new_state,
                              !.executed = Append(@, <<old_state, new_state>>)]
        s3 == CallEnterCallbacks(s2, new_state)
        s4 == Emit(s3.self, <<"state_changed", new_state>>)
    IN [self |-> s4, ret |-> Some(TRUE)]

\* _execute_transition: an exception that reaches its own try/except ends
\* the transition where it stands and makes it return False.
ExecuteTransition(self, new_state) ==
    LET old_state == self.current_state
        s1 == CallExitCallbacks(self, old_state)
        s2 == [s1.self EXCEPT !.previous_state = old_state,
                              !.current_state = new_state,
                              !.state_history = Tail50(Append(@, <<old_state, new_state>>)),
                              !.executed = Append(@, <<old_state, new_state>>)]
        s3 == CallEnterCallbacks(s2, new_state)
        s4 == Emit(s3.self, <<"state_changed", new_state>>)
    IN IF s1.raised THEN [self |-> s1.self, ret |-> Some(FALSE)]
       ELSE IF s3.raised THEN [self |-> s3.self, ret |-> Some(FALSE)]
       ELSE [self |-> s4, ret |-> Some(TRUE)]

\* change_state that validates even when force is given.
ChangeStateFn_AlwaysValidate(self, new_state, force) ==
    IF new_state = self.current_state
    THEN [self |-> self, ret |-> Some(TRUE)]
    ELSE LET s1 == Emit(self, <<"state_transition_requested", new_state>>)
             can == CanTransitionTo(s1, new_state)
         IN IF can.raised THEN Escapes(can.self)
            ELSE IF ~can.ok
            THEN [self |-> Emit(can.self, <<"state_transition_blocked", new_state>>),
                  ret |-> Some(FALSE)]
            ELSE ExecuteTransition(can.self, new_state)

\* change_state without the early return for the state it is already in.
ChangeStateFn_NoShortcut(self, new_state, force) ==
    LET s1 == Emit(self, <<"state_transition_requested", new_state>>) IN
    IF force
    THEN ExecuteTransition(s1, new_state)
    ELSE LET can == CanTransitionTo(s1, new_state) IN
         IF can.raised THEN Escapes(can.self)
         ELSE IF ~can.ok
         THEN [self |-> Emit(can.self, <<"state_transition_blocked", new_state>>),
               ret |-> Some(FALSE)]
         ELSE ExecuteTransition(can.self, new_state)

ChangeStateFn(self, new_state, force) ==
    IF new_state = self.current_state
    THEN [self |-> self, ret |-> Some(TRUE)]
    ELSE LET s1 == Emit(self, <<"state_transition_requested", new_state>>) IN
         IF force
         THEN ExecuteTransition(s1, new_state)
         ELSE LET can == CanTransitionTo(s1, new_state) IN
              IF can.raised THEN Escapes(can.self)
              ELSE IF ~can.ok
              THEN [self |-> Emit(can.self, <<"state_transition_blocked", new_state>>),
                    ret |-> Some(FALSE)]
              ELSE ExecuteTransition(can.self, new_state)

CanGoBack(self) ==
    IF self.previous_state = NULL
    THEN [self |-> self, ok |-> FALSE, raised |-> FALSE]
    ELSE CanTransitionTo(self, self.previous_state)

\* go_back that only looks at previous_state and forces the transition.
GoBackFn_Forced(self) ==
    IF self.previous_state = NULL
    THEN [self |-> self, ret |-> Some(FALSE)]
    ELSE ChangeStateFn(self, self.previous_state, TRUE)

GoBackFn(self) ==
    LET can == CanGoBack(self) IN
    IF can.raised THEN Escapes(can.self)
    ELSE IF ~can.ok
    THEN [self |-> can.self, ret |-> Some(FALSE)]
    ELSE ChangeStateFn(can.self, self.previous_state, FALSE)

\* The members of the AppState enumeration in the order "for state in AppState" visits them.
AppStateOrder == <<INICIAL, EDICAO, MARCACAO, MEDICAO, COMPARACAO>>

\* get_available_transitions that lists every other state, asking no one.
GetAvailableTransitionsFn_AllOthers(self) ==
    [self |-> self,
     ret |-> Some(SelectSeq(AppStateOrder, LAMBDA state : state # self.current_state))]

\* get_available_transitions: every member of the enumeration other than
\* the current state is put to _can_transition_to, in order, and kept when
\* the answer is yes.  A validator that raises ends the scan.
RECURSIVE ScanTransitions(_, _, _)
ScanTransitions(self, i, available) ==
    IF i > Len(AppStateOrder)
    THEN [self |-> self, ret |-> Some(available)]
    ELSE LET state == AppStateOrder[i] IN
         IF state = self.current_state
         THEN ScanTransitions(self, i + 1, available)
         ELSE LET can == CanTransitionTo(self, state) IN
              IF can.raised THEN Escapes(can.self)
              ELSE ScanTransitions(can.self, i + 1,
                                   IF can.ok THEN Append(available, state) ELSE available)

GetAvailableTransitionsFn(self) == ScanTransitions(self, 1, <<>>)

\* AppState.get_display_name
DisplayName ==
    [state \in AppState |->
        CASE state = INICIAL -> "Inicial"
          [] state = EDICAO -> "Edicao"
          [] state = MARCACAO -> "Marcacao"
          [] state = MEDICAO -> "Medicao"
          [] state = COMPARACAO -> "Comparacao"]

\* get_state_info: the dictionary is built entry by entry, can_go_back
\* before get_available_transitions (the descriptions, fixed texts like
\* the display names, are left out).
GetStateInfoFn(self) ==
    LET back == CanGoBack(self) IN
    IF back.raised THEN Escapes(back.self)
    ELSE LET available == GetAvailableTransitionsFn(back.self) IN
         IF available.ret = None THEN available
         ELSE [self |-> available.self,
               ret |-> Some([current_state |-> self.current_state,
                             previous_state |-> self.previous_state,
                             display_name |-> DisplayName[self.current_state],
                             can_go_back |-> back.ok,
                             available_transitions |-> available.ret[1],
                             history_count |-> Len(self.state_history)])]

\* The record of a call: its name, its arguments and the state it started
\* in (with the number of points the window held at that moment).
CallRecord(op, target, force) ==
    [op |-> op, target |-> target, force |-> force,
     current_state |-> current_state, previous_state |-> previous_state,
     state_history |-> state_history, point_count |-> Len(points)]

Commit(r, op, target, force, bound) ==
    /\ Len(r.self.executed) <= bound
    /\ current_state' = r.self.current_state
    /\ previous_state' = r.self.previous_state
    /\ state_history' = r.self.state_history
    /\ executed' = r.self.executed
    /\ sm_signals' = r.self.signals
    /\ sm_ret' = r.ret
    /\ sm_call' = CallRecord(op, target, force)

change_state(new_state, force) ==
    /\ Commit(ChangeStateFn(Self, new_state, force), "change_state", new_state, force, MaxTransitions)
    /\ UNCHANGED <<transition_validators, state_enter_callbacks, state_exit_callbacks>>

go_back ==
    /\ Commit(GoBackFn(Self), "go_back", NULL, FALSE, MaxTransitions)
    /\ UNCHANGED <<transition_validators, state_enter_callbacks, state_exit_callbacks>>

reset_to_initial ==
    /\ Commit(ChangeStateFn(Self, INICIAL, TRUE), "reset_to_initial", INICIAL, TRUE, MaxTransitions)
    /\ UNCHANGED <<transition_validators, state_enter_callbacks, state_exit_callbacks>>

can_go_back ==
    /\ LET can == CanGoBack(Self) IN
       Commit(IF can.raised THEN Escapes(can.self) ELSE [self |-> can.self, ret |-> Some(can.ok)],
              "can_go_back", NULL, FALSE, MaxTransitions)
    /\ UNCHANGED <<transition_validators, state_enter_callbacks, state_exit_callbacks>>

get_available_transitions ==
    /\ Commit(GetAvailableTransitionsFn(Self), "get_available_transitions", NULL, FALSE, MaxTransitions)
    /\ UNCHANGED <<transition_validators, state_enter_callbacks, state_exit_callbacks>>

get_state_info ==
    /\ Commit(GetStateInfoFn(Self), "get_state_info", NULL, FALSE, MaxTransitions)
    /\ UNCHANGED <<transition_validators, state_enter_callbacks, state_exit_callbacks>>

SetKey(f, k, v) == [p \in DOMAIN f \cup {k} |-> IF p = k THEN v ELSE f[p]]

\* Number of validators registered on top of the defaults.
CustomValidators ==
    Cardinality({k \in DOMAIN transition_validators :
                    k \notin DOMAIN DefaultValidators
                    \/ transition_validators[k] # DefaultValidators[k]})

register_transition_validator(from_state, to_state, validator) ==
    /\ transition_validators' = SetKey(transition_validators, <<from_state, to_state>>, validator)
    /\ Cardinality({k \in DOMAIN transition_validators' :
                       k \notin DOMAIN DefaultValidators
                       \/ transition_validators'[k] # DefaultValidators[k]}) <= MaxValidators
    /\ sm_call' = CallRecord("register_transition_validator", to_state, FALSE)
    /\ sm_ret' = None
    /\ sm_signals' = <<>>
    /\ UNCHANGED <<current_state, previous_state, state_history, executed,
                   state_enter_callbacks, state_exit_callbacks>>

RegisteredCallbacks ==
    LET RECURSIVE Sum(_)
        Sum(S) == IF S = {} THEN 0
                  ELSE LET s == CHOOSE s \in S : TRUE
                       IN Len(state_enter_callbacks[s]) + Len(state_exit_callbacks[s]) + Sum(S \ {s})
    IN Sum(AppState)

add_state_enter_callback(state, callback) ==
    /\ RegisteredCallbacks < MaxCallbacks
    /\ state_enter_callbacks' = [state_enter_callbacks EXCEPT ![state] = Append(@, callback)]
    /\ sm_call' = CallRecord("add_state_enter_callback", state, FALSE)
    /\ sm_ret' = None
    /\ sm_signals' = <<>>
    /\ UNCHANGED <<current_state, previous_state, state_history, executed,
                   transition_validators, state_exit_callbacks>>

add_state_exit_callback(state, callback) ==
    /\ RegisteredCallbacks < MaxCallbacks
    /\ state_exit_callbacks' = [state_exit_callbacks EXCEPT ![state] = Append(@, callback)]
    /\ sm_call' = CallRecord("add_state_exit_callback", state, FALSE)
    /\ sm_ret' = None
    /\ sm_signals' = <<>>
    /\ UNCHANGED <<current_state, previous_state, state_history, executed,
                   transition_validators, state_enter_callbacks>>

\* list.remove(x): drops the first occurrence, ValueError (swallowed) if absent.
RemoveFirst(seq, x) ==
    IF \E i \in 1..Len(seq) : seq[i] = x
    THEN LET i == CHOOSE i \in 1..Len(seq) : seq[i] = x /\ \A j \in 1..(i-1) : seq[j] # x
         IN SubSeq(seq, 1, i-1) \o SubSeq(seq, i+1, Len(seq))
    ELSE seq

remove_state_callback(state, callback) ==
    /\ state_enter_callbacks' = [state_enter_callbacks EXCEPT ![state] = RemoveFirst(@, callback)]
    /\ state_exit_callbacks' = [state_exit_callbacks EXCEPT ![state] = RemoveFirst(@, callback)]
    /\ sm_call' = CallRecord("remove_state_callback", state, FALSE)
    /\ sm_ret' = None
    /\ sm_signals' = <<>>
    /\ UNCHANGED <<current_state, previous_state, state_history, executed,
                   transition_validators>>

(***************************************************************************)
(* Point                                                                   *)
(***************************************************************************)
OptionalFields ==
    {"radius", "width", "height", "reference_value", "test_value", "name",
     "description", "component_type", "expected_value",
     "created_at", "measured_at"}
PointFields == {"id", "x", "y", "shape"} \cup OptionalFields

Raise(e) == [raised |-> TRUE, error |-> e]
Return(v) == [raised |-> FALSE, value |-> v]

\* The dataclass constructor followed by __post_init__, which raises
\* ValueError for a shape that is not circle or rectangle.
NewPoint(id, x, y, shape, kw, now) ==
    LET Arg(f, default) == IF f \in DOMAIN kw THEN kw[f] ELSE default
        radius == Arg("radius", None)
        width == Arg("width", None)
        height == Arg("height", None)
    IN IF shape \notin {"circle", "rectangle"}
       THEN Raise("ValueError")
       ELSE Return(
            [id |-> id, x |-> x, y |-> y, shape |-> shape,
             radius |-> IF shape = "circle" /\ radius = None THEN Some(20) ELSE radius,
             width |-> IF shape = "rectangle" /\ width = None THEN Some(20) ELSE width,
             height |-> IF shape = "rectangle" /\ height = None THEN Some(20) ELSE height,
             reference_value |-> Arg("reference_value", None),
             test_value |-> Arg("test_value", None),
             name |-> Arg("name", None),
             description |-> Arg("description", None),
             component_type |-> Arg("component_type", None),
             expected_value |-> Arg("expected_value", None),
             created_at |-> Arg("created_at", Some(now)),
             measured_at |-> Arg("measured_at", None)])

\* datetime.isoformat and datetime.fromisoformat.
IsoFormat(t) == <<"iso", t>>
FromIsoFormat(s) == s[2]

PointToDict(p) ==
    [p EXCEPT !.created_at = IF @ # None THEN Some(IsoFormat(@[1])) ELSE None,
              !.measured_at = IF @ # None THEN Some(IsoFormat(@[1])) ELSE None]

\* Point.from_dict that reads created_at and forgets measured_at.
PointFromDict_DropsMeasuredAt(data, now) ==
    IF ~(DOMAIN data \subseteq PointFields) \/ ~({"id", "x", "y", "shape"} \subseteq DOMAIN data)
    THEN Raise("TypeError")
    ELSE LET Parsed(f) == IF f = "created_at" /\ data[f] # None
                          THEN Some(FromIsoFormat(data[f][1]))
                          ELSE IF f = "measured_at" THEN None ELSE data[f]
             kw == [f \in DOMAIN data \ {"id", "x", "y", "shape"} |-> Parsed(f)]
         IN NewPoint(data.id, data.x, data.y, data.shape, kw, now)

\* Point.from_dict: cls(**data) after the timestamps are parsed.  A key that
\* is no field, or a missing required field, is a TypeError.
PointFromDict(data, now) ==
    IF ~(DOMAIN data \subseteq PointFields) \/ ~({"id", "x", "y", "shape"} \subseteq DOMAIN data)
    THEN Raise("TypeError")
    ELSE LET Parsed(f) == IF f \in {"created_at", "measured_at"} /\ data[f] # None
                          THEN Some(FromIsoFormat(data[f][1])) ELSE data[f]
             kw == [f \in DOMAIN data \ {"id", "x", "y", "shape"} |-> Parsed(f)]
         IN NewPoint(data.id, data.x, data.y, data.shape, kw, now)

(***************************************************************************)
(* PointManager                                                            *)
(***************************************************************************)
PM == [heap |-> heap, points |-> points, points_by_id |-> points_by_id,
       next_id |-> next_id, max_points |-> max_points,
       measurement_in_progress |-> measurement_in_progress,
       current_measurement_point |-> current_measurement_point,
       timer_active |-> timer_active, pending_results |-> pending_results,
       stats_cache |-> stats_cache, stats_cache_dirty |-> stats_cache_dirty,
       issued_ids |-> issued_ids, signals |-> <<>>, observed |-> <<>>]

Range(f) == {f[k] : k \in DOMAIN f}

\* Objects still referenced by the list or by the index.
Live(pm) == Range(pm.points) \cup Range(pm.points_by_id)

Collect(pm) == [pm EXCEPT !.heap = [r \in Live(pm) |-> pm.heap[r]]]

FreshRef(pm) == CHOOSE r \in 1..(Cardinality(Live(pm)) + 1) : r \notin Live(pm)

DropKey(f, k) == [p \in DOMAIN f \ {k} |-> f[p]]

\* signal.emit(...): the connected slots run at once, in the state the
\* manager is in at that moment.
PMEmit(pm, sig) ==
    [pm EXCEPT !.signals = Append(@, sig),
               !.observed = Append(@, [measurement_in_progress |-> pm.measurement_in_progress,
                                       current_measurement_point |-> pm.current_measurement_point,
                                       timer_active |-> pm.timer_active])]

\* _validate_coordinates
ValidateCoordinates(x, y) ==
    x >= 0 /\ y >= 0 /\ x <= 10000 /\ y <= 10000

\* _stop_current_measurement
StopCurrentMeasurement(pm) ==
    [pm EXCEPT !.timer_active = FALSE,
               !.measurement_in_progress = FALSE,
               !.current_measurement_point = None]

\* add_point that forgets to advance next_id.
AddPointFn_NoIncrement(pm, x, y, shape, kw, now) ==
    IF Len(pm.points) >= pm.max_points \/ ~ValidateCoordinates(x, y)
    THEN [pm |-> pm, ret |-> None]
    ELSE LET made == IF DOMAIN kw \subseteq OptionalFields
                     THEN NewPoint(pm.next_id, x, y, shape, kw, now)
                     ELSE Raise("TypeError")
         IN IF made.raised
            THEN [pm |-> pm, ret |-> None]
            ELSE LET point == made.value
                     ref == FreshRef(pm)
                     p1 == [pm EXCEPT !.heap = SetKey(@, ref, point),
                                      !.points = Append(@, ref),
                                      !.points_by_id = SetKey(@, point.id, ref),
                                      !.stats_cache_dirty = TRUE,
                                      !.issued_ids = @ \cup {point.id}]
                 IN [pm |-> PMEmit(p1, <<"point_added", point.id>>), ret |-> Some(point.id)]

\* add_point that refuses only when the list is already over the limit.
AddPointFn_OffByOne(pm, x, y, shape, kw, now) ==
    IF Len(pm.points) > pm.max_points
    THEN [pm |-> pm, ret |-> None]
    ELSE IF ~ValidateCoordinates(x, y)
    THEN [pm |-> pm, ret |-> None]
    ELSE LET made == IF DOMAIN kw \subseteq OptionalFields
                     THEN NewPoint(pm.next_id, x, y, shape, kw, now)
                     ELSE Raise("TypeError")
         IN IF made.raised
            THEN [pm |-> pm, ret |-> None]
            ELSE LET point == made.value
                     ref == FreshRef(pm)
                     p1 == [pm EXCEPT !.heap = SetKey(@, ref, point),
                                      !.points = Append(@, ref),
                                      !.points_by_id = SetKey(@, point.id, ref),
                                      !.next_id = @ + 1,
                                      !.stats_cache_dirty = TRUE,
                                      !.issued_ids = @ \cup {point.id}]
                 IN [pm |-> PMEmit(p1, <<"point_added", point.id>>), ret |-> Some(point.id)]

AddPointFn(pm, x, y, shape, kw, now) ==
    IF Len(pm.points) >= pm.max_points
    THEN [pm |-> pm, ret |-> None]
    ELSE IF ~ValidateCoordinates(x, y)
    THEN [pm |-> pm, ret |-> None]
    ELSE LET made == IF DOMAIN kw \subseteq OptionalFields
                     THEN NewPoint(pm.next_id, x, y, shape, kw, now)
                     ELSE Raise("TypeError")
         IN IF made.raised
            THEN [pm |-> pm, ret |-> None]
            ELSE LET point == made.value
                     ref == FreshRef(pm)
                     p1 == [pm EXCEPT !.heap = SetKey(@, ref, point),
                                      !.points = Append(@, ref),
                                      !.points_by_id = SetKey(@, point.id, ref),
                                      !.next_id = @ + 1,
                                      !.stats_cache_dirty = TRUE,
                                      !.issued_ids = @ \cup {point.id}]
                 IN [pm |-> PMEmit(p1, <<"point_added", point.id>>), ret |-> Some(point.id)]

\* list.remove(point): the first element that is the object or equals it
\* (the dataclass compares all fields).
ListRemove(pm, ref) ==
    LET i == CHOOSE i \in 1..Len(pm.points) :
                /\ pm.heap[pm.points[i]] = pm.heap[ref]
                /\ \A j \in 1..(i-1) : pm.heap[pm.points[j]] # pm.heap[ref]
    IN SubSeq(pm.points, 1, i-1) \o SubSeq(pm.points, i+1, Len(pm.points))

\* remove_point that takes the point out of the list but leaves its key.
RemovePointFn_KeepIndex(pm, point_id) ==
    IF point_id \notin DOMAIN pm.points_by_id
    THEN [pm |-> pm, ret |-> Some(FALSE)]
    ELSE LET ref == pm.points_by_id[point_id] IN
         IF ~\E i \in 1..Len(pm.points) : pm.heap[pm.points[i]] = pm.heap[ref]
         THEN [pm |-> pm, ret |-> Some(FALSE)]
         ELSE LET p1 == [pm EXCEPT !.points = ListRemove(pm, ref)]
                  p2 == [p1 EXCEPT !.stats_cache_dirty = TRUE]
              IN [pm |-> PMEmit(p2, <<"point_removed", point_id>>), ret |-> Some(TRUE)]

\* remove_point that emits point_removed before it stops the measurement.
RemovePointFn_EmitFirst(pm, point_id) ==
    IF point_id \notin DOMAIN pm.points_by_id
    THEN [pm |-> pm, ret |-> Some(FALSE)]
    ELSE LET ref == pm.points_by_id[point_id] IN
         IF ~\E i \in 1..Len(pm.points) : pm.heap[pm.points[i]] = pm.heap[ref]
         THEN [pm |-> pm, ret |-> Some(FALSE)]
         ELSE LET p1 == [pm EXCEPT !.points = ListRemove(pm, ref),
                                   !.points_by_id = DropKey(@, point_id)]
                  p2 == PMEmit(p1, <<"point_removed", point_id>>)
                  p3 == IF p2.current_measurement_point = Some(point_id)
                        THEN StopCurrentMeasurement(p2) ELSE p2
                  p4 == [p3 EXCEPT !.stats_cache_dirty = TRUE]
              IN [pm |-> Collect(p4), ret |-> Some(TRUE)]

\* remove_point that leaves a measurement of the removed point running.
RemovePointFn_KeepsMeasuring(pm, point_id) ==
    IF point_id \notin DOMAIN pm.points_by_id
    THEN [pm |-> pm, ret |-> Some(FALSE)]
    ELSE LET ref == pm.points_by_id[point_id] IN
         IF ~\E i \in 1..Len(pm.points) : pm.heap[pm.points[i]] = pm.heap[ref]
         THEN [pm |-> pm, ret |-> Some(FALSE)]
         ELSE LET p1 == [pm EXCEPT !.points = ListRemove(pm, ref),
                                   !.points_by_id = DropKey(@, point_id)]
                  p3 == [p1 EXCEPT !.stats_cache_dirty = TRUE]
              IN [pm |-> Collect(PMEmit(p3, <<"point_removed", point_id>>)), ret |-> Some(TRUE)]

RemovePointFn(pm, point_id) ==
    IF point_id \notin DOMAIN pm.points_by_id
    THEN [pm |-> pm, ret |-> Some(FALSE)]
    ELSE LET ref == pm.points_by_id[point_id] IN
         IF ~\E i \in 1..Len(pm.points) : pm.heap[pm.points[i]] = pm.heap[ref]
         THEN [pm |-> pm, ret |-> Some(FALSE)]     \* ValueError of list.remove, caught
         ELSE LET p1 == [pm EXCEPT !.points = ListRemove(pm, ref),
                                   !.points_by_id = DropKey(@, point_id)]
                  p2 == IF p1.current_measurement_point = Some(point_id)
                        THEN StopCurrentMeasurement(p1) ELSE p1
                  p3 == [p2 EXCEPT !.stats_cache_dirty = TRUE]
              IN [pm |-> Collect(PMEmit(p3, <<"point_removed", point_id>>)), ret |-> Some(TRUE)]

\* setattr for every key that hasattr finds, in the order of kwargs.
RECURSIVE SetAttrs(_, _)
SetAttrs(point, kwargs) ==
    IF kwargs = <<>> THEN point
    ELSE LET key == Head(kwargs)[1]
             value == Head(kwargs)[2]
         IN SetAttrs(IF key \in PointFields THEN [point EXCEPT ![key] = value] ELSE point,
                     Tail(kwargs))

UpdatePointFn(pm, point_id, kwargs) ==
    IF point_id \notin DOMAIN pm.points_by_id
    THEN [pm |-> pm, ret |-> Some(FALSE)]
    ELSE LET ref == pm.points_by_id[point_id]
             p1 == [pm EXCEPT !.heap[ref] = SetAttrs(@, kwargs),
                              !.stats_cache_dirty = TRUE]
         IN [pm |-> PMEmit(p1, <<"point_updated", p1.heap[ref].id>>), ret |-> Some(TRUE)]

\* clear_points that leaves a running measurement alone.
ClearPointsFn_KeepsMeasuring(pm) ==
    LET p2 == [pm EXCEPT !.points = <<>>,
                         !.points_by_id = <<>>,
                         !.heap = <<>>,
                         !.next_id = 1,
                         !.stats_cache = None,
                         !.stats_cache_dirty = TRUE,
                         !.issued_ids = {}]
    IN [pm |-> PMEmit(p2, <<"points_cleared">>), ret |-> None]

ClearPointsFn(pm) ==
    LET p1 == IF pm.measurement_in_progress THEN StopCurrentMeasurement(pm) ELSE pm
        p2 == [p1 EXCEPT !.points = <<>>,
                         !.points_by_id = <<>>,
                         !.heap = <<>>,
                         !.next_id = 1,
                         !.stats_cache = None,
                         !.stats_cache_dirty = TRUE,
                         !.issued_ids = {}]
    IN [pm |-> PMEmit(p2, <<"points_cleared">>), ret |-> None]

\* The loop of from_dict over data['points']; an entry that Point.from_dict
\* refuses raises, which ends the loop and skips what follows it.
RECURSIVE LoadPoints(_, _, _)
LoadPoints(pm, entries, now) ==
    IF entries = <<>> THEN [pm |-> pm, raised |-> FALSE]
    ELSE LET made == PointFromDict(Head(entries), now) IN
         IF made.raised THEN [pm |-> pm, raised |-> TRUE]
         ELSE LET point == made.value
                  ref == FreshRef(pm)
                  p1 == [pm EXCEPT !.heap = SetKey(@, ref, point),
                                   !.points = Append(@, ref),
                                   !.points_by_id = SetKey(@, point.id, ref),
                                   !.next_id = IF point.id >= @ THEN point.id + 1 ELSE @]
              IN LoadPoints(Collect(p1), Tail(entries), now)

\* from_dict that does not clear the manager first.
FromDictFn_NoClear(pm, data, now) ==
    LET loaded == LoadPoints(pm, data.points, now)
    IN IF loaded.raised
       THEN [pm |-> loaded.pm, ret |-> None]
       ELSE [pm |-> [loaded.pm EXCEPT !.max_points = data.settings.max_points,
                                      !.stats_cache_dirty = TRUE],
             ret |-> None]

FromDictFn(pm, data, now) ==
    LET p1 == ClearPointsFn(pm).pm
        loaded == LoadPoints(p1, data.points, now)
    IN IF loaded.raised
       THEN [pm |-> loaded.pm, ret |-> None]
       ELSE [pm |-> [loaded.pm EXCEPT !.max_points = data.settings.max_points,
                                      !.stats_cache_dirty = TRUE],
             ret |-> None]

\* PointManager.to_dict: the points in list order, each through
\* Point.to_dict, next_id, and the settings (of which max_points is the one
\* the manager's other operations read).
ToDictFn(pm) ==
    [points |-> [i \in 1..Len(pm.points) |-> PointToDict(pm.heap[pm.points[i]])],
     next_id |-> pm.next_id,
     settings |-> [max_points |-> pm.max_points]]

\* Point.is_measured: both values are present.
IsMeasured(point) == point.reference_value # None /\ point.test_value # None

\* get_unmeasured_points: the objects of the list, in its order, that are
\* not completely measured.
GetUnmeasuredPoints(pm) ==
    SelectSeq(pm.points, LAMBDA ref : ~IsMeasured(pm.heap[ref]))

\* Point.set_reference_value / set_test_value without a timestamp argument.
SetReferenceValue(point, value, now) ==
    [point EXCEPT !.reference_value = Some(value),
                  !.measured_at = IF @ = None THEN Some(now) ELSE @]

SetTestValue(point, value, now) ==
    [point EXCEPT !.test_value = Some(value),
                  !.measured_at = IF @ = None THEN Some(now) ELSE @]

\* _start_point_measurement: looks the point up in the index, emits
\* measurement_started, starts the timeout timer and schedules the
\* simulated result.
StartPointMeasurement(pm, point_id, measurement_type) ==
    IF point_id \notin DOMAIN pm.points_by_id
    THEN pm
    ELSE [PMEmit(pm, <<"measurement_started", point_id, measurement_type>>)
             EXCEPT !.timer_active = TRUE,
                    !.pending_results = @ \cup {<<point_id, measurement_type>>}]

StartMeasurementSequenceFn(pm, measurement_type) ==
    IF pm.measurement_in_progress
    THEN [pm |-> pm, ret |-> None]
    ELSE LET unmeasured == GetUnmeasuredPoints(pm) IN
         IF unmeasured = <<>>
         THEN [pm |-> pm, ret |-> None]
         ELSE LET first == pm.heap[unmeasured[1]].id
                  p1 == [pm EXCEPT !.measurement_in_progress = TRUE,
                                   !.current_measurement_point = Some(first)]
              IN [pm |-> StartPointMeasurement(p1, first, measurement_type), ret |-> None]

\* record_measurement that leaves the timeout timer running.
RecordMeasurementFn_KeepTimer(pm, point_id, measurement_type, value, now) ==
    IF point_id \notin DOMAIN pm.points_by_id
    THEN [pm |-> pm, ret |-> None]
    ELSE IF measurement_type \notin {"reference", "test"}
    THEN [pm |-> pm, ret |-> None]
    ELSE LET ref == pm.points_by_id[point_id]
             p1 == [pm EXCEPT !.heap[ref] =
                        IF measurement_type = "reference"
                        THEN SetReferenceValue(@, value, now)
                        ELSE SetTestValue(@, value, now)]
             p2 == [p1 EXCEPT !.stats_cache_dirty = TRUE]
             p3 == PMEmit(p2, <<"point_measured", point_id, measurement_type, value>>)
             p4 == PMEmit(p3, <<"point_updated", p3.heap[ref].id>>)
             p5 == IF p4.current_measurement_point = Some(point_id)
                   THEN [PMEmit(p4, <<"measurement_completed", point_id>>)
                            EXCEPT !.current_measurement_point = None,
                                   !.measurement_in_progress = FALSE]
                   ELSE p4
         IN [pm |-> p5, ret |-> None]

\* record_measurement that ends the measurement whichever point it is for.
RecordMeasurementFn_AlwaysCompletes(pm, point_id, measurement_type, value, now) ==
    IF point_id \notin DOMAIN pm.points_by_id
    THEN [pm |-> pm, ret |-> None]
    ELSE IF measurement_type \notin {"reference", "test"}
    THEN [pm |-> pm, ret |-> None]
    ELSE LET ref == pm.points_by_id[point_id]
             p1 == [pm EXCEPT !.heap[ref] =
                        IF measurement_type = "reference"
                        THEN SetReferenceValue(@, value, now)
                        ELSE SetTestValue(@, value, now)]
             p2 == [p1 EXCEPT !.timer_active = FALSE,
                              !.stats_cache_dirty = TRUE]
             p3 == PMEmit(p2, <<"point_measured", point_id, measurement_type, value>>)
             p4 == PMEmit(p3, <<"point_updated", p3.heap[ref].id>>)
             p5 == [PMEmit(p4, <<"measurement_completed", point_id>>)
                       EXCEPT !.current_measurement_point = None,
                              !.measurement_in_progress = FALSE]
         IN [pm |-> p5, ret |-> None]

\* record_measurement that stops the timer before it looks the point up.
RecordMeasurementFn_TimerFirst(pm, point_id, measurement_type, value, now) ==
    IF point_id \notin DOMAIN pm.points_by_id
    THEN [pm |-> [pm EXCEPT !.timer_active = FALSE], ret |-> None]
    ELSE IF measurement_type \notin {"reference", "test"}
    THEN [pm |-> [pm EXCEPT !.timer_active = FALSE], ret |-> None]
    ELSE LET ref == pm.points_by_id[point_id]
             p1 == [pm EXCEPT !.heap[ref] =
                        IF measurement_type = "reference"
                        THEN SetReferenceValue(@, value, now)
                        ELSE SetTestValue(@, value, now)]
             p2 == [p1 EXCEPT !.timer_active = FALSE,
                              !.stats_cache_dirty = TRUE]
             p3 == PMEmit(p2, <<"point_measured", point_id, measurement_type, value>>)
             p4 == PMEmit(p3, <<"point_updated", p3.heap[ref].id>>)
             p5 == IF p4.current_measurement_point = Some(point_id)
                   THEN [PMEmit(p4, <<"measurement_completed", point_id>>)
                            EXCEPT !.current_measurement_point = None,
                                   !.measurement_in_progress = FALSE]
                   ELSE p4
         IN [pm |-> p5, ret |-> None]

RecordMeasurementFn(pm, point_id, measurement_type, value, now) ==
    IF point_id \notin DOMAIN pm.points_by_id
    THEN [pm |-> pm, ret |-> None]
    ELSE IF measurement_type \notin {"reference", "test"}
    THEN [pm |-> pm, ret |-> None]
    ELSE LET ref == pm.points_by_id[point_id]
             p1 == [pm EXCEPT !.heap[ref] =
                        IF measurement_type = "reference"
                        THEN SetReferenceValue(@, value, now)
                        ELSE SetTestValue(@, value, now)]
             p2 == [p1 EXCEPT !.timer_active = FALSE,
                              !.stats_cache_dirty = TRUE]
             p3 == PMEmit(p2, <<"point_measured", point_id, measurement_type, value>>)
             p4 == PMEmit(p3, <<"point_updated", p3.heap[ref].id>>)
             p5 == IF p4.current_measurement_point = Some(point_id)
                   THEN [PMEmit(p4, <<"measurement_completed", point_id>>)
                            EXCEPT !.current_measurement_point = None,
                                   !.measurement_in_progress = FALSE]
                   ELSE p4
         IN [pm |-> p5, ret |-> None]

\* A timeout slot that stops the timer and forgets to end the measurement.
OnMeasurementTimeout_TimerOnly(pm) ==
    [pm |-> [pm EXCEPT !.timer_active = FALSE], ret |-> None]

\* _on_measurement_timeout, the slot of measurement_timer.timeout
OnMeasurementTimeout(pm) ==
    [pm |-> StopCurrentMeasurement(pm), ret |-> None]

\* Measured values are counted in ten-thousandths, so that the 0.001 below
\* which is_divergent takes a reference for zero is a whole number;
\* tolerances are whole percents.
Scale == 10000
Epsilon == Scale \div 1000

Abs(v) == IF v < 0 THEN -v ELSE v

\* Point.is_divergent with >= in place of > in the percentage comparison.
IsDivergent_AtTolerance(point, tolerance) ==
    IF ~IsMeasured(point) THEN FALSE
    ELSE LET reference == point.reference_value[1]
             test == point.test_value[1]
         IN IF Abs(reference) < Epsilon
            THEN Abs(test) > Epsilon
            ELSE Abs(test - reference) * 100 >= tolerance * Abs(reference)

\* Point.is_divergent whose zero-reference case also accepts |test| = 0.001
\* as divergent.
IsDivergent_ZeroInclusive(point, tolerance) ==
    IF ~IsMeasured(point) THEN FALSE
    ELSE LET reference == point.reference_value[1]
             test == point.test_value[1]
         IN IF Abs(reference) < Epsilon
            THEN Abs(test) >= Epsilon
            ELSE Abs(test - reference) * 100 > tolerance * Abs(reference)

\* Point.is_divergent: abs((test - reference) / reference) * 100 > tolerance,
\* with the division multiplied out.
IsDivergent(point, tolerance) ==
    IF ~IsMeasured(point) THEN FALSE
    ELSE LET reference == point.reference_value[1]
             test == point.test_value[1]
         IN IF Abs(reference) < Epsilon
            THEN Abs(test) > Epsilon
            ELSE Abs(test - reference) * 100 > tolerance * Abs(reference)

RECURSIVE Sum(_)
Sum(seq) == IF seq = <<>> THEN 0 ELSE Head(seq) + Sum(Tail(seq))

\* The min / max / avg dictionary of a list of values, the average as the
\* pair of the sum and the length it is divided by; None stands for the key
\* that is not set when the list is empty.
ValueStatistics(values) ==
    IF values = <<>> THEN None
    ELSE LET set == Range(values)
         IN Some([min |-> CHOOSE m \in set : \A v \in set : m <= v,
                  max |-> CHOOSE m \in set : \A v \in set : m >= v,
                  avg |-> <<Sum(values), Len(values)>>])

\* The body of get_statistics below the cache test.  The two percentages are
\* pairs of the count and what it is divided by (<<0, 1>> is the 0 of an
\* empty list).
ComputeStatistics(pm, tolerance) ==
    LET objects == [i \in 1..Len(pm.points) |-> pm.heap[pm.points[i]]]
        measured_points == SelectSeq(objects, IsMeasured)
        total == Len(objects)
        measured == Len(measured_points)
        unmeasured == Len(SelectSeq(objects, LAMBDA p : ~IsMeasured(p)))
        divergent == Len(SelectSeq(objects, LAMBDA p : IsDivergent(p, tolerance)))
        passed == measured - divergent
    IN [total |-> total,
        measured |-> measured,
        unmeasured |-> unmeasured,
        passed |-> passed,
        divergent |-> divergent,
        measurement_progress |-> IF total > 0 THEN <<measured * 100, total>> ELSE <<0, 1>>,
        pass_rate |-> IF measured > 0 THEN <<passed * 100, measured>> ELSE <<0, 1>>,
        tolerance |-> tolerance,
        shapes |-> [circles |-> Len(SelectSeq(objects, LAMBDA p : p.shape = "circle")),
                    rectangles |-> Len(SelectSeq(objects, LAMBDA p : p.shape = "rectangle"))],
        reference_values |->
            ValueStatistics([i \in 1..measured |-> measured_points[i].reference_value[1]]),
        test_values |->
            ValueStatistics([i \in 1..measured |-> measured_points[i].test_value[1]])]

\* get_statistics that recomputes on every call.
GetStatisticsFn_NoCache(pm, tolerance) ==
    LET stats == ComputeStatistics(pm, tolerance)
        p1 == [pm EXCEPT !.stats_cache = Some(stats), !.stats_cache_dirty = FALSE]
    IN [pm |-> PMEmit(p1, <<"statistics_changed", stats>>), ret |-> Some(stats)]

\* get_statistics that forgets to clear the dirty flag.
GetStatisticsFn_StaysDirty(pm, tolerance) ==
    IF ~pm.stats_cache_dirty /\ pm.stats_cache # None
    THEN [pm |-> pm, ret |-> pm.stats_cache]
    ELSE LET stats == ComputeStatistics(pm, tolerance)
             p1 == [pm EXCEPT !.stats_cache = Some(stats)]
         IN [pm |-> PMEmit(p1, <<"statistics_changed", stats>>), ret |-> Some(stats)]

\* get_statistics: the cached dictionary while nothing has been changed,
\* whatever the tolerance asked for.
GetStatisticsFn(pm, tolerance) ==
    IF ~pm.stats_cache_dirty /\ pm.stats_cache # None
    THEN [pm |-> pm, ret |-> pm.stats_cache]
    ELSE LET stats == ComputeStatistics(pm, tolerance)
             p1 == [pm EXCEPT !.stats_cache = Some(stats), !.stats_cache_dirty = FALSE]
         IN [pm |-> PMEmit(p1, <<"statistics_changed", stats>>), ret |-> Some(stats)]

\* The record of a call: its name, its arguments and what it found of the
\* ID counter, of the measurement target and of the statistics cache.
PMCallRecord(op, args) ==
    [op |-> op, args |-> args, next_id |-> next_id, issued_ids |-> issued_ids,
     current_measurement_point |-> current_measurement_point,
     stats_cache_dirty |-> stats_cache_dirty]

PMCommit(r, op, args) ==
    /\ heap' = r.pm.heap
    /\ points' = r.pm.points
    /\ points_by_id' = r.pm.points_by_id
    /\ next_id' = r.pm.next_id
    /\ max_points' = r.pm.max_points
    /\ measurement_in_progress' = r.pm.measurement_in_progress
    /\ current_measurement_point' = r.pm.current_measurement_point
    /\ timer_active' = r.pm.timer_active
    /\ pending_results' = r.pm.pending_results
    /\ stats_cache' = r.pm.stats_cache
    /\ stats_cache_dirty' = r.pm.stats_cache_dirty
    /\ issued_ids' = r.pm.issued_ids
    /\ pm_signals' = r.pm.signals
    /\ pm_observed' = r.pm.observed
    /\ pm_ret' = r.ret
    /\ pm_call' = PMCallRecord(op, args)
    /\ UNCHANGED edit_mode

add_point(x, y, shape, kw, now) ==
    PMCommit(AddPointFn(PM, x, y, shape, kw, now), "add_point", <<x, y, shape, kw>>)

remove_point(point_id) ==
    PMCommit(RemovePointFn(PM, point_id), "remove_point", <<point_id>>)

update_point(point_id, kwargs) ==
    PMCommit(UpdatePointFn(PM, point_id, kwargs), "update_point", <<point_id, kwargs>>)

clear_points ==
    PMCommit(ClearPointsFn(PM), "clear_points", <<>>)

from_dict(data, now) ==
    PMCommit(FromDictFn(PM, data, now), "from_dict", <<data>>)

\* pm.from_dict(pm.to_dict())
reload(now) ==
    PMCommit(FromDictFn(PM, ToDictFn(PM), now), "reload", <<ToDictFn(PM)>>)

start_measurement_sequence(measurement_type) ==
    PMCommit(StartMeasurementSequenceFn(PM, measurement_type),
             "start_measurement_sequence", <<measurement_type>>)

record_measurement(point_id, measurement_type, value, now) ==
    PMCommit(RecordMeasurementFn(PM, point_id, measurement_type, value, now),
             "record_measurement", <<point_id, measurement_type, value>>)

\* The event loop runs a scheduled _simulate_measurement_result, which
\* draws a value and hands it to record_measurement.
simulate_measurement_result(point_id, measurement_type, measured_value, now) ==
    /\ <<point_id, measurement_type>> \in pending_results
    /\ PMCommit(RecordMeasurementFn(
                    [PM EXCEPT !.pending_results = @ \ {<<point_id, measurement_type>>}],
                    point_id, measurement_type, measured_value, now),
                "record_measurement", <<point_id, measurement_type, measured_value>>)

\* The timeout timer fires: it can only do so while it is active.
on_measurement_timeout ==
    /\ timer_active
    /\ PMCommit(OnMeasurementTimeout(PM), "_on_measurement_timeout", <<>>)

get_statistics(tolerance) ==
    PMCommit(GetStatisticsFn(PM, tolerance), "get_statistics", <<tolerance>>)

PMInit ==
    /\ heap = <<>>
    /\ points = <<>>
    /\ points_by_id = <<>>
    /\ next_id = 1
    /\ max_points = 1000
    /\ edit_mode = FALSE
    /\ measurement_in_progress = FALSE
    /\ current_measurement_point = None
    /\ timer_active = FALSE
    /\ pending_results = {}
    /\ stats_cache = None
    /\ stats_cache_dirty = TRUE
    /\ issued_ids = {}
    /\ pm_call = PMCallRecord("__init__", <<>>)
    /\ pm_ret = None
    /\ pm_signals = <<>>
    /\ pm_observed = <<>>

SMInit ==
    /\ current_state = INICIAL
    /\ previous_state = NULL
    /\ state_history = <<>>
    /\ executed = <<>>
    /\ transition_validators = DefaultValidators
    /\ state_enter_callbacks = [s \in AppState |-> <<>>]
    /\ state_exit_callbacks = [s \in AppState |-> <<>>]
    /\ sm_call = CallRecord("__init__", NULL, FALSE)
    /\ sm_ret = None
    /\ sm_signals = <<>>

(***************************************************************************)
(* MainWindow: the handlers that drive the two controllers                 *)
(***************************************************************************)
AppInit ==
    /\ edit_mode_btn = TRUE
    /\ has_unsaved_changes = FALSE
    /\ current_shape = "circle"
    /\ files = <<>>

Init == PMInit /\ AppInit /\ SMInit

\* _update_ui_for_state, the slot of state_changed: entering MARCACAO checks
\* the edit-mode box, whose toggled signal reaches set_edit_mode.
UpdateUiForState(r) ==
    IF r.ret = Some(TRUE) /\ r.self.signals # <<>> /\ r.self.current_state = MARCACAO /\ ~edit_mode_btn
    THEN edit_mode_btn' = TRUE /\ edit_mode' = TRUE
    ELSE UNCHANGED <<edit_mode_btn, edit_mode>>

AppChangeState(new_state) ==
    LET r == ChangeStateFn(Self, new_state, FALSE) IN
    /\ Commit(r, "change_state", new_state, FALSE, MaxAppTransitions)
    /\ UpdateUiForState(r)
    /\ UNCHANGED <<transition_validators, state_enter_callbacks, state_exit_callbacks>>

PMUnchangedButEditMode ==
    UNCHANGED <<heap, points, points_by_id, next_id, max_points,
                measurement_in_progress, current_measurement_point, timer_active,
                pending_results,
                stats_cache, stats_cache_dirty, issued_ids, pm_call, pm_ret, pm_signals,
            pm_observed>>

\* _load_image with a readable image file
ui_load_image ==
    /\ AppChangeState(EDICAO)
    /\ PMUnchangedButEditMode
    /\ UNCHANGED <<has_unsaved_changes, current_shape>>

\* The button at the right of the toolbar shown for the current state.
NextButtonTarget ==
    [s \in {EDICAO, MARCACAO, MEDICAO, COMPARACAO} |->
        CASE s = EDICAO -> MARCACAO
          [] s = MARCACAO -> MEDICAO
          [] s = MEDICAO -> COMPARACAO
          [] s = COMPARACAO -> EDICAO]

ui_btn_next ==
    /\ current_state \in DOMAIN NextButtonTarget
    /\ AppChangeState(NextButtonTarget[current_state])
    /\ PMUnchangedButEditMode
    /\ UNCHANGED <<has_unsaved_changes, current_shape>>

\* _on_image_click that looks at the edit-mode box only, whatever the state.
ui_image_click_AnyState(x, y, now) ==
    /\ next_id <= MaxAdds
    /\ IF edit_mode_btn
       THEN LET kw == IF current_shape = "circle"
                      THEN [radius |-> Some(20)] ELSE [width |-> Some(20), height |-> Some(20)]
                r == AddPointFn(PM, x, y, current_shape, kw, now)
            IN /\ PMCommit(r, "add_point", <<x, y, current_shape, kw>>)
               /\ has_unsaved_changes' = (has_unsaved_changes \/ r.ret # None)
       ELSE UNCHANGED <<pmVars, has_unsaved_changes>>
    /\ UNCHANGED <<smVars, edit_mode_btn, current_shape>>

\* _on_image_click
ui_image_click(x, y, now) ==
    /\ next_id <= MaxAdds
    /\ IF current_state = MARCACAO /\ edit_mode_btn
       THEN LET kw == IF current_shape = "circle"
                      THEN [radius |-> Some(20)] ELSE [width |-> Some(20), height |-> Some(20)]
                r == AddPointFn(PM, x, y, current_shape, kw, now)
            IN /\ PMCommit(r, "add_point", <<x, y, current_shape, kw>>)
               /\ has_unsaved_changes' = (has_unsaved_changes \/ r.ret # None)
       ELSE UNCHANGED <<pmVars, has_unsaved_changes>>
    /\ UNCHANGED <<smVars, edit_mode_btn, current_shape>>

\* _set_point_shape
ui_set_point_shape(shape) ==
    /\ current_state = MARCACAO
    /\ current_shape' = shape
    /\ UNCHANGED <<smVars, pmVars, edit_mode_btn, has_unsaved_changes>>

\* _toggle_edit_mode, from the check box of the MARCACAO toolbar
ui_toggle_edit_mode ==
    /\ current_state = MARCACAO
    /\ edit_mode_btn' = ~edit_mode_btn
    /\ edit_mode' = ~edit_mode_btn
    /\ PMUnchangedButEditMode
    /\ UNCHANGED <<smVars, has_unsaved_changes, current_shape>>

\* _clear_points, answered Yes
ui_clear_points ==
    /\ Len(points) > 0
    /\ PMCommit(ClearPointsFn(PM), "clear_points", <<>>)
    /\ has_unsaved_changes' = TRUE
    /\ UNCHANGED <<smVars, edit_mode_btn, current_shape>>

\* _new_project, not cancelled
ui_new_project ==
    /\ PMCommit(ClearPointsFn(PM), "clear_points", <<>>)
    /\ has_unsaved_changes' = TRUE    \* cleared, then marked by _on_points_cleared
    /\ LET r == ChangeStateFn(Self, INICIAL, FALSE) IN
       /\ Commit(r, "change_state", INICIAL, FALSE, MaxAppTransitions)
       /\ edit_mode_btn' = edit_mode_btn
    /\ UNCHANGED <<transition_validators, state_enter_callbacks, state_exit_callbacks,
                   current_shape>>

(***************************************************************************)
(* ProjectPersistence                                                      *)
(***************************************************************************)
\* Python values, each with its type: None, str, int, list, tuple, dict (its
\* items in order, as <<key, value>>) and datetime.
PyNone == <<"none">>
PyStr(s) == <<"str", s>>
PyInt(n) == <<"int", n>>
PyList(elements) == <<"list", elements>>
PyTuple(elements) == <<"tuple", elements>>
PyDict(items) == <<"dict", items>>
PyDatetime(t) == <<"datetime", t>>

VERSION == "1.0"

\* json.dumps: null, strings and numbers as they are, lists and tuples both
\* as arrays, dicts as objects whose int keys become strings; TypeError for
\* anything else.  The result is the JSON value the text spells.
RECURSIVE JsonEncode(_)
JsonEncode(obj) ==
    CASE obj[1] = "none" -> Return(<<"null">>)
      [] obj[1] = "str" -> Return(<<"string", obj[2]>>)
      [] obj[1] = "int" -> Return(<<"number", obj[2]>>)
      [] obj[1] \in {"list", "tuple"} ->
            LET encoded == [i \in 1..Len(obj[2]) |-> JsonEncode(obj[2][i])]
            IN IF \E i \in 1..Len(obj[2]) : encoded[i].raised
               THEN Raise("TypeError")
               ELSE Return(<<"array", [i \in 1..Len(obj[2]) |-> encoded[i].value]>>)
      [] obj[1] = "dict" ->
            LET items == obj[2]
                encoded == [i \in 1..Len(items) |-> JsonEncode(items[i][2])]
                Name(key) == IF key[1] = "int" THEN ToString(key[2]) ELSE key[2]
            IN IF \/ \E i \in 1..Len(items) : items[i][1][1] \notin {"str", "int"}
                  \/ \E i \in 1..Len(items) : encoded[i].raised
               THEN Raise("TypeError")
               ELSE Return(<<"object",
                             [i \in 1..Len(items) |-> <<Name(items[i][1]), encoded[i].value>>]>>)
      [] OTHER -> Raise("TypeError")

\* What json.loads builds from a JSON value: lists for arrays, dicts with
\* str keys for objects.
RECURSIVE JsonDecode(_)
JsonDecode(json) ==
    CASE json[1] = "null" -> PyNone
      [] json[1] = "string" -> PyStr(json[2])
      [] json[1] = "number" -> PyInt(json[2])
      [] json[1] = "array" -> PyList([i \in 1..Len(json[2]) |-> JsonDecode(json[2][i])])
      [] json[1] = "object" ->
            PyDict([i \in 1..Len(json[2]) |->
                       <<PyStr(json[2][i][1]), JsonDecode(json[2][i][2])>>])

\* Text that spells a JSON value, its UTF-8 bytes, and their gzip stream.
JsonText(json) == <<"json", json>>
Utf8Encode(text) == <<"utf8", text>>
GzipCompress(bytes) == <<"gzip", bytes>>

\* gzip.decompress, bytes.decode('utf-8') and json.loads, each of which
\* raises on what the matching encoder cannot have produced.
GzipDecompress(bytes) ==
    IF bytes[1] = "gzip" THEN Return(bytes[2]) ELSE Raise("BadGzipFile")
Utf8Decode(bytes) ==
    IF bytes[1] = "utf8" THEN Return(bytes[2]) ELSE Raise("UnicodeDecodeError")
JsonLoads(text) ==
    IF text[1] = "json" THEN Return(JsonDecode(text[2])) ELSE Raise("JSONDecodeError")

\* dict.get(key, default)
DictGet(dict, key, default) ==
    IF \E i \in 1..Len(dict[2]) : dict[2][i][1] = PyStr(key)
    THEN dict[2][CHOOSE i \in 1..Len(dict[2]) : dict[2][i][1] = PyStr(key)][2]
    ELSE default

\* No file at a path, and the one path whose directory does not exist.
Absent == <<"absent">>
Paths == {"board.mip", "nodir/board.mip"}
Writable(file_path) == file_path = "board.mip"

\* save that writes the JSON text uncompressed.
SaveFn_NoGzip(disk, project_data, file_path) ==
    LET data_to_save == PyDict(<< <<PyStr("version"), PyStr(VERSION)>>,
                                  <<PyStr("format"), PyStr("mip")>>,
                                  <<PyStr("data"), project_data>> >>)
        json_str == JsonEncode(data_to_save)
    IN IF json_str.raised \/ ~Writable(file_path)
       THEN [files |-> disk, ret |-> FALSE]
       ELSE [files |-> [disk EXCEPT ![file_path] = Utf8Encode(JsonText(json_str.value))],
             ret |-> TRUE]

\* ProjectPersistence.save: the file is opened only after the text has been
\* built, so a payload json.dumps refuses leaves the disk as it was.
SaveFn(disk, project_data, file_path) ==
    LET data_to_save == PyDict(<< <<PyStr("version"), PyStr(VERSION)>>,
                                  <<PyStr("format"), PyStr("mip")>>,
                                  <<PyStr("data"), project_data>> >>)
        json_str == JsonEncode(data_to_save)
    IN IF json_str.raised \/ ~Writable(file_path)
       THEN [files |-> disk, ret |-> FALSE]
       ELSE [files |-> [disk EXCEPT ![file_path] =
                            GzipCompress(Utf8Encode(JsonText(json_str.value)))],
             ret |-> TRUE]

\* load that insists on the version it writes.
LoadFn_SameVersionOnly(disk, file_path) ==
    IF disk[file_path] = Absent THEN PyNone
    ELSE LET bytes == GzipDecompress(disk[file_path]) IN
         IF bytes.raised THEN PyNone
         ELSE LET json_str == Utf8Decode(bytes.value) IN
         IF json_str.raised THEN PyNone
         ELSE LET loaded_data == JsonLoads(json_str.value) IN
         IF loaded_data.raised THEN PyNone
         ELSE IF loaded_data.value[1] # "dict" THEN PyNone
         ELSE IF DictGet(loaded_data.value, "format", PyNone) # PyStr("mip") THEN PyNone
         ELSE IF DictGet(loaded_data.value, "version", PyStr("1.0")) # PyStr(VERSION) THEN PyNone
         ELSE DictGet(loaded_data.value, "data", PyNone)

\* ProjectPersistence.load: None for a missing file and for every exception
\* (a JSON value without .get included), None for a format other than
\* "mip"; the version is only printed.
LoadFn(disk, file_path) ==
    IF disk[file_path] = Absent THEN PyNone
    ELSE LET bytes == GzipDecompress(disk[file_path]) IN
         IF bytes.raised THEN PyNone
         ELSE LET json_str == Utf8Decode(bytes.value) IN
         IF json_str.raised THEN PyNone
         ELSE LET loaded_data == JsonLoads(json_str.value) IN
         IF loaded_data.raised THEN PyNone
         ELSE IF loaded_data.value[1] # "dict" THEN PyNone
         ELSE IF DictGet(loaded_data.value, "format", PyNone) # PyStr("mip") THEN PyNone
         ELSE DictGet(loaded_data.value, "data", PyNone)

\* The three steps leave the controllers and the window as they are.
PersistenceCommit(disk, ret, op, args) ==
    /\ files' = disk
    /\ PMCommit([pm |-> PM, ret |-> ret], op, args)
    /\ UNCHANGED <<smVars, edit_mode_btn, has_unsaved_changes, current_shape>>

save(project_data, file_path) ==
    LET r == SaveFn(files, project_data, file_path)
    IN PersistenceCommit(r.files, Some(r.ret), "save", <<project_data, file_path>>)

load(file_path) ==
    PersistenceCommit(files, Some(LoadFn(files, file_path)), "load", <<file_path>>)

\* Something else puts a file where the project is looked for.
foreign_write(content) ==
    PersistenceCommit([files EXCEPT !["board.mip"] = content], None, "write", <<content>>)

PersistenceInit ==
    /\ PMInit
    /\ SMInit
    /\ edit_mode_btn = TRUE
    /\ has_unsaved_changes = FALSE
    /\ current_shape = "circle"
    /\ files = [file_path \in Paths |-> Absent]

(***************************************************************************)
(* Inputs of the runs explored                                             *)
(***************************************************************************)
Coordinates == {<<50, 50>>, <<-1, 50>>, <<50, 10001>>}
Shapes == {"circle", "rectangle", "triangle"}
Kwargs == {<<>>, [bogus |-> Some(1)]}
Times == {1}
Ids == 1..(MaxAdds + 1)
UpdateKwargs ==
    {<< <<"id", 2>> >>, << <<"name", Some("R1")>> >>, << <<"bogus", 1>> >>}
LoadEntries ==
    {PointToDict(NewPoint(1, 50, 50, "circle", <<>>, 1).value),
     PointToDict(NewPoint(2, 50, 50, "rectangle", <<>>, 1).value),
     PointToDict(NewPoint(1, 60, 50, "circle", <<>>, 2).value),
     [id |-> 3, x |-> 50, y |-> 50, shape |-> "triangle"]}
LoadData ==
    {[points |-> ps, settings |-> [max_points |-> m]] :
        ps \in UNION {[1..n -> LoadEntries] : n \in 0..MaxLoad}, m \in {1000, 2}}

\* Saved projects with at most one point and a low or the default limit.
LimitData ==
    {[points |-> ps, settings |-> [max_points |-> m]] :
        ps \in {<<>>, <<PointToDict(NewPoint(1, 50, 50, "circle", <<>>, 1).value)>>},
        m \in {2, 1000}}
MeasurementTypes == {"reference", "test", "resistance"}
Values == {10}
MeasIds == 1..MaxAddsMeas
LookupIds == 1..(MaxAddsLookup + 1)

\* Sizes handed to add_point: none, below, inside and above the range that
\* the tests take for valid.
MinDimension == 10
MaxDimension == 60
DimKwargs ==
    {<<>>, [radius |-> Some(5)], [radius |-> Some(20)], [radius |-> Some(100)],
     [width |-> Some(70), height |-> Some(20)]}

\* 10.0 and 10.4, the tolerances 3 % and 5 %, and a saved project with no
\* point or with one measured point.
StatValues == {10 * Scale, 104 * (Scale \div 10)}
Tolerances == {3, 5}
StatIds == 1..(MaxAddsStats + 1)
StatsData ==
    {[points |-> ps, settings |-> [max_points |-> 1000]] :
        ps \in {<<>>,
                <<PointToDict(NewPoint(1, 50, 50, "circle",
                                       [reference_value |-> Some(10 * Scale),
                                        test_value |-> Some(104 * (Scale \div 10))],
                                       1).value)>>}}

\* Points as the constructor and the two value setters leave them: both
\* shapes, with and without a size of their own, with none, one or both
\* measured values, with and without the two timestamps.
RoundTripPoints ==
    {NewPoint(1, 50, 50, shape,
              [radius |-> radius, reference_value |-> reference, test_value |-> test,
               name |-> Some("R1"), created_at |-> created, measured_at |-> measured],
              1).value :
        shape \in {"circle", "rectangle"}, radius \in {None, Some(15)},
        reference \in {None, Some(10 * Scale)}, test \in {None, Some(104 * (Scale \div 10))},
        created \in {None, Some(1)}, measured \in {None, Some(2)}}

\* Points for is_divergent: references and test values that are missing,
\* zero, below, at and above 0.001, and 4.0 / 5.0 / 10.0 / 10.4 with either
\* sign; tolerances of 0, 3, 5 and 25 percent.
DivergenceReferences ==
    {None, Some(0), Some(5), Some(-5), Some(10), Some(-10),
     Some(4 * Scale), Some(10 * Scale), Some(-10 * Scale)}
DivergenceTests ==
    {None, Some(0), Some(10), Some(-10), Some(11), Some(-11),
     Some(5 * Scale), Some(10 * Scale), Some(104 * (Scale \div 10)),
     Some(-104 * (Scale \div 10))}
DivergenceTolerances == {0, 3, 5, 25}
DivergencePoints ==
    {NewPoint(1, 50, 50, "circle", [reference_value |-> reference, test_value |-> test], 1).value :
        reference \in DivergenceReferences, test \in DivergenceTests}

\* Payloads handed to save: JSON-shaped ones, one with a tuple, one with an
\* int key and one with a datetime, as in the __dict__ of a Point.
Payloads ==
    {PyDict(<<>>),
     PyDict(<< <<PyStr("points"), PyList(<<>>)>> >>),
     PyDict(<< <<PyStr("points"), PyList(<<PyDict(<< <<PyStr("id"), PyInt(1)>> >>)>>)>>,
               <<PyStr("settings"), PyDict(<< <<PyStr("tolerance"), PyInt(5)>> >>)>> >>),
     PyDict(<< <<PyStr("size"), PyTuple(<<PyInt(800), PyInt(600)>>)>> >>),
     PyDict(<< <<PyInt(1), PyStr("R1")>> >>),
     PyDict(<< <<PyStr("points"),
                 PyList(<<PyDict(<< <<PyStr("created_at"), PyDatetime(1)>> >>)>>)>> >>)}

\* A gzip stream that spells the JSON object with the given members.
GzippedObject(members) == GzipCompress(Utf8Encode(JsonText(<<"object", members>>)))

\* Files that save did not write: plain text, gzipped bytes that are no
\* text, gzipped text that is no JSON, a gzipped JSON array, envelopes with
\* another format or none, and "mip" envelopes with another version, with
\* no version and with no data.
ForeignContents ==
    {Utf8Encode(<<"text", "hello">>),
     GzipCompress(<<"binary", "ff">>),
     GzipCompress(Utf8Encode(<<"text", "hello">>)),
     GzipCompress(Utf8Encode(JsonText(<<"array", <<>>>>))),
     GzippedObject(<< <<"version", <<"string", "1.0">>>>, <<"format", <<"string", "zip">>>>,
                      <<"data", <<"object", <<>>>>>> >>),
     GzippedObject(<< <<"data", <<"object", <<>>>>>> >>),
     GzippedObject(<< <<"version", <<"string", "2.0">>>>, <<"format", <<"string", "mip">>>>,
                      <<"data", <<"object", << <<"points", <<"array", <<>>>>>> >>>>>> >>),
     GzippedObject(<< <<"format", <<"string", "mip">>>>, <<"data", <<"string", "x">>>> >>),
     GzippedObject(<< <<"version", <<"string", "1.0">>>>, <<"format", <<"string", "mip">>>> >>)}

\* A StateManager driven through its public operations, validators included.
Next ==
    \/ \E t \in AppState, force \in BOOLEAN :
          change_state(t, force) /\ UNCHANGED <<pmVars, appVars>>
    \/ go_back /\ UNCHANGED <<pmVars, appVars>>
    \/ reset_to_initial /\ UNCHANGED <<pmVars, appVars>>
    \/ \E k \in ValidatorPairs, v \in Validators :
          register_transition_validator(k[1], k[2], v) /\ UNCHANGED <<pmVars, appVars>>

Spec == Init /\ [][Next]_vars

\* The same StateManager with observers attached and the default validators.
NextCB ==
    \/ \E t \in AppState, force \in BOOLEAN :
          change_state(t, force) /\ UNCHANGED <<pmVars, appVars>>
    \/ \E s \in CallbackStates, cb \in Callbacks :
          add_state_enter_callback(s, cb) /\ UNCHANGED <<pmVars, appVars>>
    \/ \E s \in CallbackStates, cb \in Callbacks :
          add_state_exit_callback(s, cb) /\ UNCHANGED <<pmVars, appVars>>
    \/ \E s \in CallbackStates, cb \in Callbacks :
          remove_state_callback(s, cb) /\ UNCHANGED <<pmVars, appVars>>

SpecCB == Init /\ [][NextCB]_vars

\* A PointManager driven through its public mutations.
NextPM ==
    \/ \E xy \in Coordinates, shape \in Shapes, kw \in Kwargs, now \in Times :
          /\ next_id <= MaxAdds
          /\ add_point(xy[1], xy[2], shape, kw, now)
          /\ UNCHANGED <<smVars, appVars>>
    \/ \E id \in Ids : remove_point(id) /\ UNCHANGED <<smVars, appVars>>
    \/ \E id \in Ids, kwargs \in UpdateKwargs :
          update_point(id, kwargs) /\ UNCHANGED <<smVars, appVars>>
    \/ clear_points /\ UNCHANGED <<smVars, appVars>>
    \/ \E data \in LoadData, now \in Times :
          from_dict(data, now) /\ UNCHANGED <<smVars, appVars>>

SpecPM == Init /\ [][NextPM]_vars

\* The main window: what the user can do to the two controllers.
NextApp ==
    \/ ui_load_image /\ UNCHANGED files
    \/ ui_btn_next /\ UNCHANGED files
    \/ \E xy \in Coordinates, now \in Times : ui_image_click(xy[1], xy[2], now) /\ UNCHANGED files
    \/ \E shape \in {"circle", "rectangle"} : ui_set_point_shape(shape) /\ UNCHANGED files
    \/ ui_toggle_edit_mode /\ UNCHANGED files
    \/ ui_clear_points /\ UNCHANGED files
    \/ ui_new_project /\ UNCHANGED files

SpecApp == Init /\ [][NextApp]_vars

\* A PointManager driven through add_point, remove_point and clear_points only.
NextCRUD ==
    \/ \E xy \in Coordinates, shape \in Shapes, kw \in Kwargs, now \in Times :
          /\ next_id <= MaxAddsCRUD
          /\ add_point(xy[1], xy[2], shape, kw, now)
          /\ UNCHANGED <<smVars, appVars>>
    \/ \E id \in Ids : remove_point(id) /\ UNCHANGED <<smVars, appVars>>
    \/ clear_points /\ UNCHANGED <<smVars, appVars>>

SpecCRUD == Init /\ [][NextCRUD]_vars

\* A PointManager that loads a project and then has points added and removed
\* up to and beyond the limit of the project.
NextLimit ==
    \/ \E xy \in Coordinates, shape \in Shapes, kw \in Kwargs, now \in Times :
          /\ next_id <= MaxAddsCRUD
          /\ add_point(xy[1], xy[2], shape, kw, now)
          /\ UNCHANGED <<smVars, appVars>>
    \/ \E id \in Ids : remove_point(id) /\ UNCHANGED <<smVars, appVars>>
    \/ clear_points /\ UNCHANGED <<smVars, appVars>>
    \/ \E data \in LimitData, now \in Times :
          from_dict(data, now) /\ UNCHANGED <<smVars, appVars>>

SpecLimit == Init /\ [][NextLimit]_vars

\* A PointManager whose points are marked, renumbered, removed and measured:
\* the measurement operations with the timer and the simulated instrument.
NextMeas ==
    \/ \E now \in Times :
          /\ next_id <= MaxAddsMeas
          /\ add_point(50, 50, "circle", <<>>, now)
          /\ UNCHANGED <<smVars, appVars>>
    \/ \E id \in MeasIds : remove_point(id) /\ UNCHANGED <<smVars, appVars>>
    \/ \E id \in MeasIds : update_point(id, << <<"id", 2>> >>) /\ UNCHANGED <<smVars, appVars>>
    \/ clear_points /\ UNCHANGED <<smVars, appVars>>
    \/ \E t \in {"reference", "test"} :
          /\ Cardinality(pending_results) < MaxPending
          /\ start_measurement_sequence(t)
          /\ UNCHANGED <<smVars, appVars>>
    \/ \E id \in MeasIds, t \in MeasurementTypes, v \in Values, now \in Times :
          record_measurement(id, t, v, now) /\ UNCHANGED <<smVars, appVars>>
    \/ \E id \in MeasIds, t \in MeasurementTypes, v \in Values, now \in Times :
          simulate_measurement_result(id, t, v, now) /\ UNCHANGED <<smVars, appVars>>
    \/ on_measurement_timeout /\ UNCHANGED <<smVars, appVars>>

SpecMeas == Init /\ [][NextMeas]_vars

\* A StateManager walked back and forth between INICIAL and EDICAO until
\* the history has been filled and trimmed.
NextWalk ==
    \/ \E t \in {INICIAL, EDICAO} :
          /\ Commit(ChangeStateFn(Self, t, FALSE), "change_state", t, FALSE, MaxWalk)
          /\ UNCHANGED <<transition_validators, state_enter_callbacks, state_exit_callbacks>>
          /\ UNCHANGED <<pmVars, appVars>>
    \/ /\ Commit(GoBackFn(Self), "go_back", NULL, FALSE, MaxWalk)
       /\ UNCHANGED <<transition_validators, state_enter_callbacks, state_exit_callbacks>>
       /\ UNCHANGED <<pmVars, appVars>>

SpecWalk == Init /\ [][NextWalk]_vars

\* A PointManager to which points of all sizes are added.
NextDims ==
    \/ \E shape \in {"circle", "rectangle"}, kw \in DimKwargs, now \in Times :
          /\ next_id <= MaxAdds
          /\ add_point(50, 50, shape, kw, now)
          /\ UNCHANGED <<smVars, appVars>>
    \/ \E id \in Ids : remove_point(id) /\ UNCHANGED <<smVars, appVars>>
    \/ clear_points /\ UNCHANGED <<smVars, appVars>>

SpecDims == Init /\ [][NextDims]_vars

\* A PointManager that is asked for points it holds and for points it does
\* not hold, while a measurement runs and while the statistics are cached.
NextLookup ==
    \/ \E now \in Times :
          /\ next_id <= MaxAddsLookup
          /\ add_point(50, 50, "circle", <<>>, now)
          /\ UNCHANGED <<smVars, appVars>>
    \/ \E id \in LookupIds : remove_point(id) /\ UNCHANGED <<smVars, appVars>>
    \/ \E id \in LookupIds :
          update_point(id, << <<"id", 2>> >>) /\ UNCHANGED <<smVars, appVars>>
    \/ \E t \in {"reference", "test"} :
          /\ Cardinality(pending_results) < MaxPending
          /\ start_measurement_sequence(t)
          /\ UNCHANGED <<smVars, appVars>>
    \/ \E id \in LookupIds, t \in MeasurementTypes, v \in Values, now \in Times :
          record_measurement(id, t, v, now) /\ UNCHANGED <<smVars, appVars>>
    \/ \E id \in LookupIds, t \in MeasurementTypes, v \in Values, now \in Times :
          simulate_measurement_result(id, t, v, now) /\ UNCHANGED <<smVars, appVars>>
    \/ on_measurement_timeout /\ UNCHANGED <<smVars, appVars>>
    \/ get_statistics(5) /\ UNCHANGED <<smVars, appVars>>
    \/ clear_points /\ UNCHANGED <<smVars, appVars>>

SpecLookup == Init /\ [][NextLookup]_vars

\* A PointManager whose points are changed in every way the class offers
\* and whose statistics are asked for at two tolerances.
NextStats ==
    \/ \E now \in Times :
          /\ next_id <= MaxAddsStats
          /\ add_point(50, 50, "circle", <<>>, now)
          /\ UNCHANGED <<smVars, appVars>>
    \/ \E id \in StatIds : remove_point(id) /\ UNCHANGED <<smVars, appVars>>
    \/ \E id \in StatIds :
          update_point(id, << <<"name", Some("R1")>> >>) /\ UNCHANGED <<smVars, appVars>>
    \/ clear_points /\ UNCHANGED <<smVars, appVars>>
    \/ \E id \in StatIds, now \in Times :
          record_measurement(id, "reference", 10 * Scale, now) /\ UNCHANGED <<smVars, appVars>>
    \/ \E id \in StatIds, v \in StatValues, now \in Times :
          record_measurement(id, "test", v, now) /\ UNCHANGED <<smVars, appVars>>
    \/ \E data \in StatsData, now \in Times :
          from_dict(data, now) /\ UNCHANGED <<smVars, appVars>>
    \/ \E tolerance \in Tolerances :
          get_statistics(tolerance) /\ UNCHANGED <<smVars, appVars>>

SpecStats == Init /\ [][NextStats]_vars

\* A PointManager that loads saved projects, good and bad ones, over what
\* it holds, and has points added in between.
NextLoad ==
    \/ \E now \in Times :
          /\ next_id <= MaxLoad + 1
          /\ add_point(50, 50, "circle", <<>>, now)
          /\ UNCHANGED <<smVars, appVars>>
    \/ \E data \in LoadData, now \in Times :
          from_dict(data, now) /\ UNCHANGED <<smVars, appVars>>

SpecLoad == Init /\ [][NextLoad]_vars

\* A Point on its own: the one object of the heap, held by no manager.
PointInit(candidates) ==
    /\ heap \in {<<p>> : p \in candidates}
    /\ points = <<>>
    /\ points_by_id = <<>>
    /\ next_id = 1
    /\ max_points = 1000
    /\ edit_mode = FALSE
    /\ measurement_in_progress = FALSE
    /\ current_measurement_point = None
    /\ timer_active = FALSE
    /\ pending_results = {}
    /\ stats_cache = None
    /\ stats_cache_dirty = TRUE
    /\ issued_ids = {}
    /\ pm_call = PMCallRecord("__init__", <<>>)
    /\ pm_ret = None
    /\ pm_signals = <<>>
    /\ pm_observed = <<>>

\* p.to_dict()
point_to_dict ==
    PMCommit([pm |-> PM, ret |-> Some(PointToDict(heap[1]))], "Point.to_dict", <<>>)

\* Point.from_dict(d) for the dictionary that to_dict has just returned, at
\* a later time.
point_from_dict ==
    /\ pm_call.op = "Point.to_dict"
    /\ LET made == PointFromDict(pm_ret[1], 9)
       IN PMCommit([pm |-> PM, ret |-> IF made.raised THEN None ELSE Some(made.value)],
                   "Point.from_dict", <<pm_ret[1]>>)

NextRoundTrip ==
    \/ point_to_dict /\ UNCHANGED <<smVars, appVars>>
    \/ point_from_dict /\ UNCHANGED <<smVars, appVars>>

RoundTripInit == PointInit(RoundTripPoints) /\ AppInit /\ SMInit

SpecRoundTrip == RoundTripInit /\ [][NextRoundTrip]_vars

\* p.is_divergent(tolerance)
point_is_divergent(tolerance) ==
    PMCommit([pm |-> PM, ret |-> Some(IsDivergent(heap[1], tolerance))],
             "Point.is_divergent", <<tolerance>>)

NextDivergent ==
    \E tolerance \in DivergenceTolerances :
        point_is_divergent(tolerance) /\ UNCHANGED <<smVars, appVars>>

DivergentInit == PointInit(DivergencePoints) /\ AppInit /\ SMInit

SpecDivergent == DivergentInit /\ [][NextDivergent]_vars

\* Projects saved to and loaded from a disk that other programs write to.
NextPersistence ==
    \/ \E project_data \in Payloads, file_path \in Paths : save(project_data, file_path)
    \/ \E file_path \in Paths : load(file_path)
    \/ \E content \in ForeignContents : foreign_write(content)

SpecPersistence == PersistenceInit /\ [][NextPersistence]_vars

\* The transitions a validator is registered for in the runs with queries:
\* one forward, one backward and one that the table does not list.
QueryPairs == {<<MARCACAO, MEDICAO>>, <<MARCACAO, EDICAO>>, <<INICIAL, MEDICAO>>}

\* A StateManager that is asked what it would accept between the
\* transitions and the registrations.
NextQuery ==
    \/ \E t \in AppState, force \in BOOLEAN :
          change_state(t, force) /\ UNCHANGED <<pmVars, appVars>>
    \/ \E k \in QueryPairs, v \in Validators :
          register_transition_validator(k[1], k[2], v) /\ UNCHANGED <<pmVars, appVars>>
    \/ get_available_transitions /\ UNCHANGED <<pmVars, appVars>>
    \/ get_state_info /\ UNCHANGED <<pmVars, appVars>>

SpecQuery == Init /\ [][NextQuery]_vars

\* A StateManager one of whose validators may raise when it is called.
NextRaise ==
    \/ \E t \in AppState, force \in BOOLEAN :
          change_state(t, force) /\ UNCHANGED <<pmVars, appVars>>
    \/ go_back /\ UNCHANGED <<pmVars, appVars>>
    \/ can_go_back /\ UNCHANGED <<pmVars, appVars>>
    \/ get_available_transitions /\ UNCHANGED <<pmVars, appVars>>
    \/ \E k \in QueryPairs, v \in Validators \cup RaisingValidators :
          register_transition_validator(k[1], k[2], v) /\ UNCHANGED <<pmVars, appVars>>

SpecRaise == Init /\ [][NextRaise]_vars

\* The values the instrument delivers in the runs of the measurement cycle.
CycleValues == {9, 10, 11, 12}

\* One turn of the cycle begins: the caller starts a sequence of reference
\* measurements when none is running.
cycle_start ==
    /\ ~measurement_in_progress
    /\ start_measurement_sequence("reference")

\* The started measurement is completed: a reference value is recorded for
\* the current measurement point.
cycle_record ==
    /\ measurement_in_progress
    /\ current_measurement_point # None
    /\ \E v \in CycleValues, now \in Times :
          record_measurement(current_measurement_point[1], "reference", v, now)

\* Points are marked, and then the cycle "start a reference sequence,
\* record the value of the current point" is repeated; the simulated results
\* scheduled on the way arrive when the event loop gets to them.
NextCycle ==
    \/ \E xy \in Coordinates, shape \in Shapes, now \in Times :
          /\ next_id <= MaxAddsMeas
          /\ pm_call.op \in {"__init__", "add_point"}
          /\ add_point(xy[1], xy[2], shape, <<>>, now)
          /\ UNCHANGED <<smVars, appVars>>
    \/ cycle_start /\ UNCHANGED <<smVars, appVars>>
    \/ cycle_record /\ UNCHANGED <<smVars, appVars>>
    \/ \E id \in MeasIds, v \in CycleValues, now \in Times :
          simulate_measurement_result(id, "reference", v, now) /\ UNCHANGED <<smVars, appVars>>

\* The cycle is repeated for ever: neither of its two steps is put off for ever.
SpecCycle ==
    /\ Init
    /\ [][NextCycle]_vars
    /\ WF_vars(cycle_start /\ UNCHANGED <<smVars, appVars>>)
    /\ WF_vars(cycle_record /\ UNCHANGED <<smVars, appVars>>)

\* A PointManager whose measurements are completed by the simulated
\* instrument alone: record_measurement is called only by the deferred
\* _simulate_measurement_result, while points are added, removed and
\* cleared and the timeout may fire first.
NextDeferred ==
    \/ \E xy \in {<<50, 50>>, <<60, 60>>}, now \in Times :
          /\ next_id <= MaxAddsMeas
          /\ add_point(xy[1], xy[2], "circle", <<>>, now)
          /\ UNCHANGED <<smVars, appVars>>
    \/ \E id \in MeasIds : remove_point(id) /\ UNCHANGED <<smVars, appVars>>
    \/ clear_points /\ UNCHANGED <<smVars, appVars>>
    \/ \E t \in {"reference", "test"} :
          /\ Cardinality(pending_results) < MaxPending
          /\ start_measurement_sequence(t)
          /\ UNCHANGED <<smVars, appVars>>
    \/ \E id \in MeasIds, t \in {"reference", "test"}, v \in Values, now \in Times :
          simulate_measurement_result(id, t, v, now) /\ UNCHANGED <<smVars, appVars>>
    \/ on_measurement_timeout /\ UNCHANGED <<smVars, appVars>>

SpecDeferred == Init /\ [][NextDeferred]_vars

\* A PointManager that receives add_point, remove_point, clear_points,
\* start_measurement_sequence, record_measurement and timeout events in any
\* order, the simulated results included.
NextEvents ==
    \/ \E now \in Times :
          /\ next_id <= MaxAddsMeas
          /\ add_point(50, 50, "circle", <<>>, now)
          /\ UNCHANGED <<smVars, appVars>>
    \/ \E id \in MeasIds : remove_point(id) /\ UNCHANGED <<smVars, appVars>>
    \/ clear_points /\ UNCHANGED <<smVars, appVars>>
    \/ \E t \in {"reference", "test"} :
          /\ Cardinality(pending_results) < MaxPending
          /\ start_measurement_sequence(t)
          /\ UNCHANGED <<smVars, appVars>>
    \/ \E id \in MeasIds, t \in MeasurementTypes, v \in Values, now \in Times :
          record_measurement(id, t, v, now) /\ UNCHANGED <<smVars, appVars>>
    \/ \E id \in MeasIds, t \in {"reference", "test"}, v \in Values, now \in Times :
          simulate_measurement_result(id, t, v, now) /\ UNCHANGED <<smVars, appVars>>
    \/ on_measurement_timeout /\ UNCHANGED <<smVars, appVars>>

SpecEvents == Init /\ [][NextEvents]_vars

\* A PointManager whose points are added and removed and that is, now and
\* then, reloaded from its own to_dict output.
NextReload ==
    \/ \E xy \in Coordinates, shape \in Shapes, now \in Times :
          /\ next_id <= MaxAddsCRUD
          /\ add_point(xy[1], xy[2], shape, <<>>, now)
          /\ UNCHANGED <<smVars, appVars>>
    \/ \E id \in Ids : remove_point(id) /\ UNCHANGED <<smVars, appVars>>
    \/ \E now \in Times : reload(now) /\ UNCHANGED <<smVars, appVars>>

SpecReload == Init /\ [][NextReload]_vars

(***************************************************************************)
(* Properties                                                              *)
(***************************************************************************)
ForwardPairs ==
    {<<INICIAL, EDICAO>>, <<EDICAO, MARCACAO>>, <<MARCACAO, MEDICAO>>,
     <<MEDICAO, COMPARACAO>>}
BackwardPairs ==
    {<<EDICAO, INICIAL>>, <<MARCACAO, EDICAO>>, <<MEDICAO, MARCACAO>>,
     <<COMPARACAO, MEDICAO>>, <<COMPARACAO, EDICAO>>}
TablePairs == ForwardPairs \cup BackwardPairs

\* The last call was change_state(target, force=False) with a target other
\* than the state it was issued in.
NonForcedRequest ==
    /\ sm_call.op = "change_state"
    /\ ~sm_call.force
    /\ sm_call.target # sm_call.current_state

Emitted(kind) == \E i \in 1..Len(sm_signals) : sm_signals[i][1] = kind

StateUntouched ==
    /\ current_state = sm_call.current_state
    /\ previous_state = sm_call.previous_state
    /\ state_history = sm_call.state_history

PointIds == {heap[points[i]].id : i \in 1..Len(points)}

\* C2: after any sequence of add_point, remove_point and clear_points the
\* keys of points_by_id are the IDs of the points of the list, and the two
\* structures have the same length.
C2_IndexMatchesList ==
    /\ DOMAIN points_by_id = PointIds
    /\ Cardinality(DOMAIN points_by_id) = Len(points)

C2_Witness ==
    /\ pm_call.op = "remove_point"
    /\ pm_ret = Some(TRUE)
    /\ Len(points) = 1
    /\ heap[points[1]].id = 2

\* C3: after every public mutation, update_point and from_dict included,
\* the keys of points_by_id are exactly the IDs of the points of the list
\* and each key maps to the point that carries that ID.
C3_IndexInSync ==
    /\ DOMAIN points_by_id = PointIds
    /\ \A k \in DOMAIN points_by_id : heap[points_by_id[k]].id = k

\* C4: the IDs returned by successful add_point calls are strictly
\* increasing as long as clear_points is not called, whatever was removed in
\* between, and a rejected add_point consumes no ID.
C4_IdsIncrease ==
    pm_call.op = "add_point" =>
        IF pm_ret # None
        THEN /\ \A i \in pm_call.issued_ids : i < pm_ret[1]
             /\ next_id > pm_ret[1]
        ELSE next_id = pm_call.next_id /\ issued_ids = pm_call.issued_ids

C4_Witness ==
    /\ pm_call.op = "add_point"
    /\ pm_ret = Some(2)
    /\ pm_call.issued_ids = {1}
    /\ 1 \notin DOMAIN points_by_id

\* C5: in MARCACAO, reached by INICIAL -> EDICAO -> MARCACAO, a non-forced
\* change_state(EDICAO) returns False and the state remains MARCACAO.
C5_BackToEdicaoRefused ==
    (/\ NonForcedRequest
     /\ transition_validators = DefaultValidators
     /\ sm_call.state_history = << <<INICIAL, EDICAO>>, <<EDICAO, MARCACAO>> >>
     /\ sm_call.current_state = MARCACAO
     /\ sm_call.target = EDICAO) =>
        sm_ret = Some(FALSE) /\ current_state = MARCACAO

\* The last call executed a transition.
Executed ==
    /\ sm_call.op = "change_state"
    /\ sm_call.target # sm_call.current_state
    /\ sm_ret = Some(TRUE)

IsExit(e) == e[1] = "exit_callback"
IsEnter(e) == e[1] = "enter_callback"
CallbackIds(events) == [i \in 1..Len(events) |-> events[i][3]]

\* C6: an executed transition old -> new runs all exit callbacks of old
\* while current_state is still old, then sets previous_state and
\* current_state and appends to the history, then runs all enter callbacks
\* of new, which see the new state, and emits state_changed(new) last; no
\* callback of another state runs.
C6_TransitionOrder ==
    Executed =>
        LET old == sm_call.current_state
            new == sm_call.target
            n == Len(sm_signals)
        IN /\ previous_state = old
           /\ current_state = new
           /\ state_history = Append(sm_call.state_history, <<old, new>>)
           /\ CallbackIds(SelectSeq(sm_signals, IsExit)) = state_exit_callbacks[old]
           /\ CallbackIds(SelectSeq(sm_signals, IsEnter)) = state_enter_callbacks[new]
           /\ \A i \in 1..n :
                 /\ IsExit(sm_signals[i]) =>
                       /\ sm_signals[i][2] = old
                       /\ sm_signals[i][4] = old
                       /\ sm_signals[i][5] = Len(sm_call.state_history)
                       /\ \A j \in 1..(i-1) : ~IsEnter(sm_signals[j])
                 /\ IsEnter(sm_signals[i]) =>
                       /\ sm_signals[i][2] = new
                       /\ sm_signals[i][4] = new
                       /\ sm_signals[i][5] = Len(sm_call.state_history) + 1
                 /\ sm_signals[i][1] = "state_changed" => i = n
           /\ n > 0
           /\ sm_signals[n] = <<"state_changed", new>>

C6_Witness ==
    /\ Executed
    /\ state_exit_callbacks[sm_call.current_state] # <<>>
    /\ state_enter_callbacks[sm_call.target] # <<>>

\* C7: go_back returns True only when previous_state is set and the
\* non-forced transition to it is allowed, and then the former
\* previous_state is the current state; otherwise it returns False and
\* leaves current_state, previous_state and the history alone.
C7_GoBack ==
    sm_call.op = "go_back" =>
        LET back == <<sm_call.current_state, sm_call.previous_state>>
            allowed == /\ sm_call.previous_state # NULL
                       /\ IF back \in DOMAIN transition_validators
                          THEN transition_validators[back] = "accept"
                          ELSE back \in BackwardPairs
        IN IF allowed
           THEN sm_ret = Some(TRUE) /\ current_state = sm_call.previous_state
           ELSE sm_ret = Some(FALSE) /\ StateUntouched

C7_Witness ==
    /\ sm_call.op = "go_back"
    /\ sm_ret = Some(TRUE)
    /\ Len(state_history) = 3

C9_NoMeasuringWithoutPoints ==
    (/\ NonForcedRequest
     /\ sm_call.current_state = MARCACAO
     /\ sm_call.target = MEDICAO
     /\ sm_call.point_count = 0) =>
        sm_ret = Some(FALSE) /\ current_state = MARCACAO

\* C10: change_state(t, force=True) with t other than the current state
\* returns True and makes t current for every pair of states, consults no
\* validator and emits no state_transition_blocked; reset_to_initial
\* leaves the machine in INICIAL.
C10_ForceAlwaysSucceeds ==
    /\ (sm_call.op \in {"change_state", "reset_to_initial"} /\ sm_call.force
        /\ sm_call.target # sm_call.current_state) =>
            /\ sm_ret = Some(TRUE)
            /\ current_state = sm_call.target
            /\ previous_state = sm_call.current_state
            /\ ~Emitted("validator_called")
            /\ ~Emitted("state_transition_blocked")
    /\ sm_call.op = "reset_to_initial" => current_state = INICIAL

C10_Witness ==
    /\ sm_call.op = "change_state"
    /\ sm_call.force
    /\ sm_call.current_state = INICIAL
    /\ sm_call.target = MEDICAO
    /\ <<INICIAL, MEDICAO>> \in DOMAIN transition_validators
    /\ transition_validators[<<INICIAL, MEDICAO>>] = "reject"
    /\ current_state = MEDICAO

\* The last call was a change_state that had to execute a transition (forced,
\* or allowed by the default table) on which a raising callback is registered.
RaisingCallbackOnPath ==
    /\ sm_call.op = "change_state"
    /\ sm_call.target # sm_call.current_state
    /\ transition_validators = DefaultValidators
    /\ sm_call.force \/ <<sm_call.current_state, sm_call.target>> \in TablePairs
    /\ \/ \E i \in DOMAIN state_exit_callbacks[sm_call.current_state] :
             state_exit_callbacks[sm_call.current_state][i] \in RaisingCallbacks
       \/ \E i \in DOMAIN state_enter_callbacks[sm_call.target] :
             state_enter_callbacks[sm_call.target][i] \in RaisingCallbacks

\* C11: when an enter or exit callback raises during an allowed or forced
\* transition, change_state still returns True, current_state is the target,
\* previous_state the old state, the history holds the transition, every
\* callback of the two registries concerned has been called, in order, and
\* state_changed is emitted.
C11_RaisingCallbackDoesNotAbort ==
    RaisingCallbackOnPath =>
        LET old == sm_call.current_state
            new == sm_call.target
        IN /\ sm_ret = Some(TRUE)
           /\ current_state = new
           /\ previous_state = old
           /\ state_history = Append(sm_call.state_history, <<old, new>>)
           /\ CallbackIds(SelectSeq(sm_signals, IsExit)) = state_exit_callbacks[old]
           /\ CallbackIds(SelectSeq(sm_signals, IsEnter)) = state_enter_callbacks[new]
           /\ sm_signals[Len(sm_signals)] = <<"state_changed", new>>

C11_Witness ==
    /\ RaisingCallbackOnPath
    /\ state_enter_callbacks[sm_call.target] = <<"cb_raises", "cb1">>
    /\ sm_signals[Len(sm_signals) - 1][3] = "cb1"

\* C12: change_state(t) issued in state t, forced or not, returns True and
\* leaves current_state, previous_state and the history as they were; no
\* callback runs and no signal is emitted, state_transition_requested
\* included.
C12_SameStateNoOp ==
    (sm_call.op = "change_state" /\ sm_call.target = sm_call.current_state) =>
        /\ sm_ret = Some(TRUE)
        /\ StateUntouched
        /\ sm_signals = <<>>

C12_Witness ==
    /\ sm_call.op = "change_state"
    /\ sm_call.force
    /\ sm_call.target = EDICAO
    /\ sm_call.current_state = EDICAO
    /\ state_enter_callbacks[EDICAO] # <<>>
    /\ state_exit_callbacks[EDICAO] # <<>>
    /\ sm_ret = Some(TRUE)

Min(a, b) == IF a <= b THEN a ELSE b
LastN(seq, n) == SubSeq(seq, Len(seq) - n + 1, Len(seq))

PMEmitted(kind) == \E i \in 1..Len(pm_signals) : pm_signals[i][1] = kind

\* The measurement state of the manager: flag, target and timer.
MeasurementState == <<measurement_in_progress, current_measurement_point, timer_active>>

\* Positions of the list whose point lacks a reference or a test value.
UnmeasuredIndexes ==
    {i \in 1..Len(points) :
        heap[points[i]].reference_value = None \/ heap[points[i]].test_value = None}

FirstUnmeasuredId ==
    heap[points[CHOOSE i \in UnmeasuredIndexes : \A j \in UnmeasuredIndexes : i <= j]].id

\* C14: start_measurement_sequence(type) leaves the target, the flag and the
\* timer alone and emits no measurement_started when a measurement is in
\* progress or no unmeasured point exists; otherwise it sets the flag, makes
\* the first unmeasured point of the list the target, emits
\* measurement_started for it and starts the timer.
C14_StartMeasurement ==
    [][pm_call'.op = "start_measurement_sequence" =>
          IF measurement_in_progress \/ UnmeasuredIndexes = {}
          THEN /\ UNCHANGED MeasurementState
               /\ pm_signals' = <<>>
          ELSE /\ measurement_in_progress'
               /\ current_measurement_point' = Some(FirstUnmeasuredId)
               /\ pm_signals' = << <<"measurement_started", FirstUnmeasuredId,
                                     pm_call'.args[1]>> >>
               /\ timer_active']_vars

SignalKinds(signals) == [i \in 1..Len(signals) |-> signals[i][1]]

\* C15: record_measurement(id, type, value) for the current target with a
\* valid type emits point_measured, point_updated and
\* measurement_completed(id) in that order and leaves the manager with no
\* measurement in progress and no target, whatever points are still
\* unmeasured; and no operation other than start_measurement_sequence
\* selects a target or emits measurement_started.
C15_RecordCurrentCompletes ==
    [][/\ (/\ pm_call'.op = "record_measurement"
           /\ current_measurement_point = Some(pm_call'.args[1])
           /\ pm_call'.args[2] \in {"reference", "test"}) =>
              /\ SignalKinds(pm_signals') =
                    <<"point_measured", "point_updated", "measurement_completed">>
              /\ pm_signals'[1] = <<"point_measured">> \o pm_call'.args
              /\ pm_signals'[3] = <<"measurement_completed", pm_call'.args[1]>>
              /\ ~measurement_in_progress'
              /\ current_measurement_point' = None
       /\ pm_call'.op # "start_measurement_sequence" =>
              /\ ~PMEmitted("measurement_started")'
              /\ current_measurement_point' \in {current_measurement_point, None}]_vars

\* The last step was record_measurement for a point that the index holds
\* and that is not the measurement target.
RecordedForOther ==
    /\ pm_call'.op = "record_measurement"
    /\ pm_call'.args[1] \in DOMAIN points_by_id
    /\ current_measurement_point # Some(pm_call'.args[1])

\* The step stored the value of the call in the given field of the point it
\* names (stamping measured_at at most) and touched no other point.
StoredOnThatPointOnly(field) ==
    LET ref == points_by_id[pm_call'.args[1]] IN
    /\ points' = points
    /\ points_by_id' = points_by_id
    /\ DOMAIN heap' = DOMAIN heap
    /\ \A r \in DOMAIN heap \ {ref} : heap'[r] = heap[r]
    /\ heap'[ref] = [heap[ref] EXCEPT ![field] = Some(pm_call'.args[3]),
                                      !.measured_at = heap'[ref].measured_at]

\* C16 as stated: record_measurement for an existing point that is not the
\* target stores the value on that point only, emits point_measured and
\* point_updated but not measurement_completed, and leaves the flag and the
\* target as they were, whatever the measurement type given.
C16_RecordOtherAnyType ==
    [][RecordedForOther =>
          /\ \E field \in {"reference_value", "test_value"} : StoredOnThatPointOnly(field)
          /\ SignalKinds(pm_signals') = <<"point_measured", "point_updated">>
          /\ UNCHANGED <<measurement_in_progress, current_measurement_point>>]_vars

\* C16: record_measurement with the type "reference" or "test" for an
\* existing point that is not the target stores the value in the
\* corresponding field of that point only, emits point_measured and
\* point_updated but not measurement_completed, and leaves the flag and the
\* target as they were; with any other type it stores and emits nothing.
C16_RecordOtherValidType ==
    [][RecordedForOther =>
          /\ UNCHANGED <<measurement_in_progress, current_measurement_point>>
          /\ IF pm_call'.args[2] \in {"reference", "test"}
             THEN /\ StoredOnThatPointOnly(IF pm_call'.args[2] = "reference"
                                           THEN "reference_value" ELSE "test_value")
                  /\ SignalKinds(pm_signals') = <<"point_measured", "point_updated">>
             ELSE /\ UNCHANGED <<heap, points, points_by_id>>
                  /\ pm_signals' = <<>>]_vars

C16_Witness ==
    /\ pm_call.op = "record_measurement"
    /\ pm_call.args = <<2, "test", 10>>
    /\ measurement_in_progress
    /\ current_measurement_point = Some(1)
    /\ 2 \in DOMAIN points_by_id
    /\ heap[points_by_id[2]].test_value = Some(10)
    /\ heap[points_by_id[1]].test_value = None
    /\ SignalKinds(pm_signals) = <<"point_measured", "point_updated">>

\* C17: the timeout firing during a measurement ends it without an error:
\* the flag is cleared, the target is null, the timer is stopped, and the
\* points, their values and the index are untouched; and whenever no
\* measurement is in progress, as after the timeout, a
\* start_measurement_sequence is accepted if an unmeasured point exists.
C17_TimeoutAborts ==
    [][/\ (pm_call'.op = "_on_measurement_timeout" /\ measurement_in_progress) =>
              /\ ~measurement_in_progress'
              /\ current_measurement_point' = None
              /\ ~timer_active'
              /\ UNCHANGED <<heap, points, points_by_id>>
              /\ pm_ret' = None
              /\ pm_signals' = <<>>
       /\ (/\ pm_call'.op = "start_measurement_sequence"
           /\ ~measurement_in_progress
           /\ UnmeasuredIndexes # {}) =>
              /\ measurement_in_progress'
              /\ current_measurement_point' = Some(FirstUnmeasuredId)]_vars

C17_Witness ==
    /\ pm_call.op = "_on_measurement_timeout"
    /\ pm_call.current_measurement_point # None
    /\ ~measurement_in_progress
    /\ current_measurement_point = None
    /\ ~timer_active
    /\ UnmeasuredIndexes # {}

\* C18: in every reachable state the timeout timer is active only while a
\* measurement is in progress, so that once a measurement has completed or
\* has been cancelled by remove_point or clear_points no timeout can fire
\* before the next start_measurement_sequence.
C18_TimerOnlyWhileMeasuring ==
    timer_active => measurement_in_progress

C18_Witness ==
    /\ pm_call.op = "record_measurement"
    /\ pm_call.current_measurement_point = Some(pm_call.args[1])
    /\ PMEmitted("measurement_completed")
    /\ ~timer_active
    /\ ~measurement_in_progress
    /\ UnmeasuredIndexes # {}

\* The measurement state that the slots of the signal of the given kind
\* found when it was emitted in the last call.
ObservedAt(kind) ==
    pm_observed[CHOOSE i \in 1..Len(pm_signals) : pm_signals[i][1] = kind]

MeasurementStopped ==
    [measurement_in_progress |-> FALSE, current_measurement_point |-> None,
     timer_active |-> FALSE]

\* C19: a remove_point that removes the measurement target clears the flag
\* and the target and stops the timer, and has done so when point_removed
\* is emitted; a remove_point of any other point leaves the flag, the target
\* and the timer as they were.
C19_RemoveTargetStops ==
    [][(pm_call'.op = "remove_point" /\ pm_ret' = Some(TRUE)) =>
          IF current_measurement_point = Some(pm_call'.args[1])
          THEN /\ ~measurement_in_progress'
               /\ current_measurement_point' = None
               /\ ~timer_active'
               /\ pm_signals' = << <<"point_removed", pm_call'.args[1]>> >>
               /\ ObservedAt("point_removed")' = MeasurementStopped
          ELSE UNCHANGED MeasurementState]_vars

C19_Witness ==
    /\ pm_call.op = "remove_point"
    /\ pm_ret = Some(TRUE)
    /\ pm_call.args = <<1>>
    /\ pm_signals = << <<"point_removed", 1>> >>
    /\ pm_observed = <<MeasurementStopped>>
    /\ pm_call.current_measurement_point = Some(1)
    /\ Len(points) = 1

DimensionInRange(v) == v = None \/ (v[1] >= MinDimension /\ v[1] <= MaxDimension)

OutOfRangeKwargs(kw) ==
    \E f \in DOMAIN kw \cap {"radius", "width", "height"} : ~DimensionInRange(kw[f])

\* C21: a point whose radius, width or height lies outside the valid range
\* is not created: add_point called with such a size returns None and adds
\* nothing, and no stored point carries an out-of-range dimension.
C21_DimensionsValidated ==
    /\ \A i \in 1..Len(points) :
          /\ DimensionInRange(heap[points[i]].radius)
          /\ DimensionInRange(heap[points[i]].width)
          /\ DimensionInRange(heap[points[i]].height)
    /\ (pm_call.op = "add_point" /\ OutOfRangeKwargs(pm_call.args[4]))
          => (pm_ret = None /\ pm_signals = <<>> /\ next_id = pm_call.next_id)


(***************************************************************************)
(* Calls for a point that is not there                                     *)
(***************************************************************************)
\* No key of the index and no point of the list carries the ID.
NotInCollection(point_id) ==
    /\ point_id \notin DOMAIN points_by_id
    /\ \A i \in 1..Len(points) : heap[points[i]].id # point_id

\* C22: remove_point, update_point and record_measurement for an ID that is
\* not in the collection, and record_measurement with a type that is neither
\* 'reference' nor 'test', change nothing: the points and their values, the
\* index, next_id, the measurement target and flag, the timer and the dirty
\* flag of the statistics stay as they were and nothing is emitted;
\* remove_point and update_point return False.
C22_UnknownIdChangesNothing ==
    [][(/\ pm_call'.op \in {"remove_point", "update_point", "record_measurement"}
        /\ \/ NotInCollection(pm_call'.args[1])
           \/ /\ pm_call'.op = "record_measurement"
              /\ pm_call'.args[2] \notin {"reference", "test"})
       => /\ UNCHANGED <<heap, points, points_by_id, next_id, measurement_in_progress,
                         current_measurement_point, timer_active, stats_cache,
                         stats_cache_dirty>>
          /\ pm_signals' = <<>>
          /\ pm_call'.op \in {"remove_point", "update_point"} => pm_ret' = Some(FALSE)]_vars

\* An unknown ID was asked for while a measurement was running on a timer
\* and the statistics were cached.
C22_Witness ==
    /\ pm_call.op \in {"remove_point", "update_point", "record_measurement"}
    /\ NotInCollection(pm_call.args[1])
    /\ points # <<>>
    /\ measurement_in_progress
    /\ timer_active
    /\ ~stats_cache_dirty
    /\ stats_cache # None


(***************************************************************************)
(* clear_points                                                            *)
(***************************************************************************)
\* C23: after clear_points, whatever the state it was called in, the list
\* and the index are empty, next_id is 1, no measurement is in progress, no
\* point is the measurement target, the timer is not active and
\* points_cleared has been emitted exactly once; an add_point that follows
\* and succeeds returns the ID 1.
C23_ClearResets ==
    [][/\ pm_call'.op = "clear_points"
          => /\ points' = <<>>
             /\ points_by_id' = <<>>
             /\ next_id' = 1
             /\ ~measurement_in_progress'
             /\ current_measurement_point' = None
             /\ ~timer_active'
             /\ pm_signals' = << <<"points_cleared">> >>
       /\ (pm_call.op = "clear_points" /\ pm_call'.op = "add_point" /\ pm_ret' # None)
          => pm_ret' = Some(1)]_vars

\* clear_points was called while a measurement ran on its timer and after
\* the ID 1 had been handed out.
C23_Witness ==
    /\ pm_call.op = "clear_points"
    /\ pm_call.current_measurement_point # None
    /\ pm_call.next_id > 1
    /\ points = <<>>


(***************************************************************************)
(* Statistics                                                              *)
(***************************************************************************)
MutatingOperations ==
    {"add_point", "remove_point", "update_point", "clear_points",
     "record_measurement", "from_dict"}

\* The last call was one of the mutating operations and went through (each
\* of them emits when it does).
Mutated == pm_call.op \in MutatingOperations /\ pm_signals # <<>>

\* C24: of two get_statistics calls in a row with the same tolerance the
\* second returns what the first returned and emits nothing; the
\* get_statistics that follows a mutation of the manager (add, remove,
\* update, clear, record_measurement, from_dict) computes the statistics of
\* the points as they are now and emits statistics_changed once.
C24_StatisticsCached ==
    [][pm_call'.op = "get_statistics"
       => /\ (pm_call.op = "get_statistics" /\ pm_call.args = pm_call'.args)
             => (pm_ret' = pm_ret /\ pm_signals' = <<>>)
          /\ Mutated
             => LET stats == ComputeStatistics(PM, pm_call'.args[1])
                IN /\ pm_ret' = Some(stats)
                   /\ pm_signals' = << <<"statistics_changed", stats>> >>]_vars

\* The statistics of a measured point were asked for twice at one tolerance.
C24_Witness ==
    /\ pm_call.op = "get_statistics"
    /\ ~pm_call.stats_cache_dirty
    /\ pm_signals = <<>>
    /\ ~stats_cache_dirty
    /\ pm_ret # None
    /\ pm_ret[1].measured = 1
    /\ pm_ret[1].tolerance = pm_call.args[1]

\* C25: every get_statistics(tol) returns a snapshot of the current points
\* at that tolerance: total is the number of points, measured + unmeasured
\* = total, divergent is the number of points divergent at tol, passed =
\* measured - divergent, and the tolerance field is tol.
C25_SnapshotAtTolerance ==
    pm_call.op = "get_statistics"
    => LET stats == pm_ret[1]
           tolerance == pm_call.args[1]
       IN /\ stats.total = Len(points)
          /\ stats.measured + stats.unmeasured = stats.total
          /\ stats.divergent =
                Cardinality({i \in 1..Len(points) : IsDivergent(heap[points[i]], tolerance)})
          /\ stats.passed = stats.measured - stats.divergent
          /\ stats.tolerance = tolerance


(***************************************************************************)
(* from_dict                                                               *)
(***************************************************************************)
\* Every entry of the saved point list can be turned into a Point.
Loadable(data) ==
    \A i \in 1..Len(data.points) : ~PointFromDict(data.points[i], 1).raised

LoadedIds(data) == {data.points[i].id : i \in 1..Len(data.points)}

\* C26: after a from_dict that went through, next_id is greater than the ID
\* of every loaded point, the manager holds the loaded points and nothing of
\* what it held before, and the add_point that follows returns an ID that
\* no loaded point has.
C26_LoadAdvancesNextId ==
    [][/\ (pm_call'.op = "from_dict" /\ Loadable(pm_call'.args[1]))
          => LET data == pm_call'.args[1]
             IN /\ Len(points') = Len(data.points)
                /\ \A i \in 1..Len(points') :
                      /\ heap'[points'[i]].id = data.points[i].id
                      /\ heap'[points'[i]].x = data.points[i].x
                      /\ heap'[points'[i]].id < next_id'
                /\ DOMAIN points_by_id' = LoadedIds(data)
       /\ (/\ pm_call.op = "from_dict" /\ Loadable(pm_call.args[1])
           /\ pm_call'.op = "add_point" /\ pm_ret' # None)
          => pm_ret'[1] \notin LoadedIds(pm_call.args[1])]_vars

\* A project of two points was loaded over a manager that held a point.
C26_Witness ==
    /\ pm_call.op = "from_dict"
    /\ Loadable(pm_call.args[1])
    /\ Len(pm_call.args[1].points) = 2
    /\ pm_call.issued_ids # {}
    /\ next_id = 3

\* C27: when from_dict fails partway through the point list, the manager
\* is left empty: neither what it held before nor the entries read before
\* the failure are in the list or in the index.
C27_FailedLoadLeavesEmpty ==
    (pm_call.op = "from_dict" /\ ~Loadable(pm_call.args[1]))
    => (points = <<>> /\ points_by_id = <<>>)


(***************************************************************************)
(* Point.to_dict and Point.from_dict                                       *)
(***************************************************************************)
\* C28: for every Point p, circle or rectangle, with none, one or both
\* measured values, with or without measured_at, Point.from_dict(p.to_dict())
\* is a Point equal to p in every field.
C28_DictRoundTrip ==
    pm_call.op = "Point.from_dict" => pm_ret = Some(heap[1])

\* A rectangle with both values and a measured_at went through the two
\* conversions.
C28_Witness ==
    /\ pm_call.op = "Point.from_dict"
    /\ pm_call.args[1].measured_at = Some(IsoFormat(2))
    /\ heap[1].shape = "rectangle"
    /\ IsMeasured(heap[1])
    /\ heap[1].measured_at = Some(2)


(***************************************************************************)
(* Point.is_divergent                                                      *)
(***************************************************************************)
\* C29: is_divergent(tol) is False for a point that lacks its reference or
\* its test value, at every tol, 0 included; for a measured point whose
\* |reference| is below 0.001 it is True exactly when |test| exceeds 0.001,
\* whatever tol; otherwise it is True exactly when
\* |test - reference| / |reference| * 100 > tol, so that reference 10.0 with
\* test 10.4 is not divergent at 5 and divergent at 3.
C29_Divergence ==
    pm_call.op = "Point.is_divergent"
    => LET p == heap[1]
           tol == pm_call.args[1]
           result == pm_ret[1]
       IN IF p.reference_value = None \/ p.test_value = None
          THEN result = FALSE
          ELSE LET reference == p.reference_value[1]
                   test == p.test_value[1]
               IN /\ Abs(reference) < Epsilon => (result <=> Abs(test) > Epsilon)
                  /\ Abs(reference) >= Epsilon
                     => (result <=> Abs(test - reference) * 100 > tol * Abs(reference))
                  /\ (reference = 10 * Scale /\ test = 104 * (Scale \div 10))
                     => (result <=> tol < 4)

\* 10.0 against 10.4 was judged at 3 percent.
C29_Witness ==
    /\ pm_call.op = "Point.is_divergent"
    /\ pm_call.args = <<3>>
    /\ heap[1].reference_value = Some(10 * Scale)
    /\ heap[1].test_value = Some(104 * (Scale \div 10))
    /\ pm_ret = Some(TRUE)


(***************************************************************************)
(* ProjectPersistence.save and load                                        *)
(***************************************************************************)
\* The file is a gzip stream of UTF-8 text that spells a JSON object whose
\* "format" member is the string "mip".
HoldsMipEnvelope(content) ==
    /\ content[1] = "gzip"
    /\ content[2][1] = "utf8"
    /\ content[2][2][1] = "json"
    /\ content[2][2][2][1] = "object"
    /\ \E i \in 1..Len(content[2][2][2][2]) :
          content[2][2][2][2][i] = <<"format", <<"string", "mip">>>>

\* The "data" member of that object as json.loads reads it, None without one.
EnvelopeData(content) ==
    LET members == content[2][2][2][2]
    IN IF \E i \in 1..Len(members) : members[i][1] = "data"
       THEN JsonDecode(members[CHOOSE i \in 1..Len(members) : members[i][1] = "data"][2])
       ELSE PyNone

\* Values that JSON holds as they are: None, str, int, lists of such and
\* dicts of such under str keys.
RECURSIVE JsonNative(_)
JsonNative(obj) ==
    CASE obj[1] \in {"none", "str", "int"} -> TRUE
      [] obj[1] = "list" -> \A i \in 1..Len(obj[2]) : JsonNative(obj[2][i])
      [] obj[1] = "dict" -> \A i \in 1..Len(obj[2]) :
                               obj[2][i][1][1] = "str" /\ JsonNative(obj[2][i][2])
      [] OTHER -> FALSE

\* What load returns for the file as it is: the data of a "mip" envelope,
\* whatever its version, and None for everything else.
LoadReadsEnvelope ==
    pm_call'.op = "load"
    => LET content == files[pm_call'.args[1]]
       IN pm_ret' = Some(IF HoldsMipEnvelope(content) THEN EnvelopeData(content) ELSE PyNone)

SavedThenLoaded ==
    /\ pm_call.op = "save"
    /\ pm_ret = Some(TRUE)
    /\ pm_call'.op = "load"
    /\ pm_call'.args[1] = pm_call.args[2]

\* C30 as stated: load(path) returns d exactly when the file holds a "mip"
\* envelope whose data is d, whatever its version, and None for a missing
\* file, undecodable content or another format; the load that follows a
\* successful save(d, path) returns d, for every payload d.
C30_LoadInvertsSave ==
    [][/\ LoadReadsEnvelope
       /\ SavedThenLoaded => pm_ret' = Some(pm_call.args[1])]_vars

\* C30, amended: the same, where the load that follows a successful
\* save(d, path) returns d as JSON holds it (tuples as lists, int keys as
\* strings), which is d itself when d is made of None, str, int, lists and
\* dicts with str keys.
C30_LoadInvertsSaveOfJson ==
    [][/\ LoadReadsEnvelope
       /\ SavedThenLoaded
          => /\ pm_ret' = Some(JsonDecode(JsonEncode(pm_call.args[1]).value))
             /\ JsonNative(pm_call.args[1]) => pm_ret' = Some(pm_call.args[1])]_vars

\* A project with points and settings was saved and came back from load.
C30_Witness ==
    /\ pm_call.op = "load"
    /\ pm_ret # Some(PyNone)
    /\ Len(pm_ret[1][2]) = 2
    /\ JsonNative(pm_ret[1])
    /\ files[pm_call.args[1]] =
          SaveFn([file_path \in Paths |-> Absent], pm_ret[1], pm_call.args[1]).files[pm_call.args[1]]


\* The states, other than the current one, that a non-forced change_state
\* would accept in the present state.
WouldAccept ==
    {t \in AppState \ {current_state} : ChangeStateFn(Self, t, FALSE).ret = Some(TRUE)}

\* The Qt signals among the entries of a call's log.
Notifications(signals) ==
    {i \in 1..Len(signals) :
        signals[i][1] \in {"state_changed", "state_transition_requested",
                           "state_transition_blocked"}}

RaisingValidatorCalled ==
    \E i \in 1..Len(sm_signals) :
        /\ sm_signals[i][1] = "validator_called"
        /\ sm_signals[i][2] \in DOMAIN transition_validators
        /\ transition_validators[sm_signals[i][2]] \in RaisingValidators

\* C32: no exception leaves change_state, go_back, can_go_back or
\* get_available_transitions; a non-forced change_state and a go_back that met
\* a raising validator have returned False and left current_state,
\* previous_state and the history as they were.
C32_NoExceptionEscapes ==
    sm_call.op \in {"change_state", "go_back", "can_go_back", "get_available_transitions"} =>
        /\ ~Emitted("exception_escaped")
        /\ (sm_call.op \in {"change_state", "go_back"} /\ RaisingValidatorCalled) =>
              (sm_ret = Some(FALSE) /\ StateUntouched)


\* C33: in the running application a step that makes the point list longer
\* or moves next_id forward is an add_point made while current_state is
\* MARCACAO and the edit-mode box is checked; in any other state a click
\* leaves the list and next_id as they were.
C33_PointsGrowOnlyInMarcacao ==
    [][(Len(points') > Len(points) \/ next_id' > next_id) =>
          /\ current_state = MARCACAO
          /\ current_state' = MARCACAO
          /\ edit_mode_btn
          /\ pm_call'.op = "add_point"]_vars

\* A click has added a point in MARCACAO, after the window went through
\* other states with the list empty.
C33_Witness ==
    /\ current_state = MARCACAO
    /\ pm_call.op = "add_point"
    /\ pm_ret # None
    /\ Len(points) = 1
    /\ Len(state_history) >= 2


\* C34: after the new-project action has run to its end, whatever the state
\* it was invoked in, the point collection is empty and the state machine is
\* in INICIAL.  (In the window only the new-project action asks for INICIAL.)
C34_NewProjectResets ==
    (sm_call.op = "change_state" /\ sm_call.target = INICIAL /\ pm_call.op = "clear_points") =>
        /\ Len(points) = 0
        /\ DOMAIN points_by_id = {}
        /\ current_state = INICIAL


\* At least two points are held and none of them has a value.
TwoPointsWithoutValues ==
    /\ Len(points) >= 2
    /\ \A i \in 1..Len(points) :
          heap[points[i]].reference_value = None /\ heap[points[i]].test_value = None

EveryPointHasReference ==
    \A i \in 1..Len(points) : heap[points[i]].reference_value # None

\* C35: from at least two points without values, repeating "start a
\* reference sequence, record the value of the current point" leads to a
\* state in which every point has a reference value.
C35_CycleReachesEveryPoint ==
    TwoPointsWithoutValues ~> EveryPointHasReference


\* The points of the collection, in order, with all their attributes.
PointValues == [i \in 1..Len(points) |-> heap[points[i]]]

\* C36: when the deferred simulated result of a measurement arrives after
\* that measurement was stopped (the point it was scheduled for is no longer
\* the current measurement point), no point's attributes change.
C36_StaleResultDiscarded ==
    [][(pm_call'.op = "record_measurement"
        /\ current_measurement_point # Some(pm_call'.args[1])) =>
          PointValues' = PointValues]_vars


\* C37: whenever measurement_in_progress is True the timeout timer is
\* active, also after record_measurement was called for a point other than
\* the current target.
C37_InProgressHasTimer ==
    measurement_in_progress => timer_active

\* C38: measurement_in_progress is True exactly when
\* current_measurement_point is not None, and a current measurement point is
\* the ID of a point of the list and a key of the index.
C38_CurrentPointConsistent ==
    /\ measurement_in_progress <=> current_measurement_point # None
    /\ current_measurement_point # None =>
          /\ current_measurement_point[1] \in PointIds
          /\ current_measurement_point[1] \in DOMAIN points_by_id

\* The second of two points is being measured, the first one having been
\* removed while the measurement went on.
C38_Witness ==
    /\ measurement_in_progress
    /\ current_measurement_point = Some(2)
    /\ pm_call.op = "remove_point"
    /\ pm_ret = Some(TRUE)
    /\ Len(points) = 1


C40_ReloadKeepsNextId ==
    [][pm_call'.op = "reload" =>
          /\ PointValues' = PointValues
          /\ next_id' = next_id]_vars

====
